---- MODULE Spec2Model ----
(***************************************************************************)
(* Reconciliation engine of comfyui_helper: ComfyUILauncher.startup runs   *)
(* the node phase (NodesManager.init_nodes) and the model phase            *)
(* (ModelsManager.init_models) against the persisted state document        *)
(* (StateManager), then launches the host application.                     *)
(*                                                                         *)
(* Python's tri-state results are the strings "True", "None", "False".     *)
(***************************************************************************)
EXTENDS Integers, Sequences, FiniteSets, TLC

\* ------------------------------------------------------------------ bounds
MaxRuns == 2
MaxNodes == 2
MaxModelCfg == 1
MaxPrevLen == 1
MaxNodeCfgLen == 3
MaxNodePrevLen == 2
MaxModelCfgLen == 2
MaxModelPrevLen == 2
MaxCalls == 2
MaxSignals == 2
MaxExitCode == 2
MaxLines == 2
MaxFiles == 2

\* ------------------------------------------------------------- value sets
\* names of the nodes a config may ask for, and of one left by an old config
NodeCatalog == <<"x", "y", "z", "w">>
NodeNames == {NodeCatalog[i] : i \in 1..MaxNodes}
OldNodeNames == {"x", "old"}
Urls == {"u1", "u2"}
Paths == {"p1", "p2"}
\* the wider value sets of the single-run specifications
RichNodeNames == {"x", "y", "z"}
RichOldNodeNames == {"x", "y", "z", "old"}
RichUrls == {"u1", "u2", "u3"}
RichPaths == {"p1", "p2", "p3"}

\* constants.py: BOOT_INIT_NODE_EXCLUDE = {"comfyui-manager"}
BOOT_INIT_NODE_EXCLUDE == {"comfyui-manager"}

\* ---------------------------------------------------------------- helpers
Range(s) == {s[i] : i \in 1..Len(s)}

SeqsUpTo(S, n) == UNION {[1..k -> S] : k \in 0..n}

\* ------------------------------------------------------------------ nodes
\* nodes.py Node: name, source, version (url, script and the derived path
\* are functions of the name here).
Node(n, s, v) == [name |-> n, source |-> s, version |-> v]

Names(nodes) == {nodes[i].name : i \in 1..Len(nodes)}

\* a membership test that compares every field of the node
NodeIn_AllFields(node, lst) == node \in Range(lst)

\* Node.__eq__ / __hash__: equality by name only, so `node in lst` is a
\* membership test on names.
NodeIn(node, lst) == node.name \in Names(lst)

\* Node.is_excluded (variant: no node is excluded)
is_excluded_Never(node) == FALSE

\* Node.is_excluded
is_excluded(node) == node.name \in BOOT_INIT_NODE_EXCLUDE

RECURSIVE UniqueNodes(_, _)
\* list(dict.fromkeys(all_nodes)): first occurrence of each name is kept
UniqueNodes(s, seen) ==
    IF s = <<>> THEN <<>>
    ELSE IF Head(s).name \in seen THEN UniqueNodes(Tail(s), seen)
         ELSE <<Head(s)>> \o UniqueNodes(Tail(s), seen \cup {Head(s).name})

\* NodesManager._load_config
NodesLoadConfig(nodes_config) == UniqueNodes(nodes_config, {})

\* NodesManager._load_config lines 271-275: the names reported as
\* duplicates, those that Counter(all_nodes) counts more than once
NodesDuplicatesReported(all_nodes) ==
    {n \in Names(all_nodes) :
       Cardinality({i \in 1..Len(all_nodes) : all_nodes[i].name = n}) > 1}

\* NodesManager.__init__: prev_state = _load_config(prev) if prev else []
NodesPrevState(prev) == IF prev # <<>> THEN NodesLoadConfig(prev) ELSE <<>>

RECURSIVE NodesNotIn(_, _)
\* [node for node in a if node not in b]
NodesNotIn(a, b) ==
    IF a = <<>> THEN <<>>
    ELSE IF NodeIn(Head(a), b) THEN NodesNotIn(Tail(a), b)
         ELSE <<Head(a)>> \o NodesNotIn(Tail(a), b)

\* setup_exists left false on the first run
NodeSetupExists_Never(prev_state) == FALSE

\* NodesManager.init_nodes, queue computation (lines 286-301)
NodeSetupExists(prev_state) == prev_state = <<>>

NodeInstallQueue(current_config, prev_state) ==
    IF prev_state # <<>> THEN NodesNotIn(current_config, prev_state)
    ELSE current_config

NodeRemoveQueue(current_config, prev_state) ==
    IF prev_state # <<>> THEN NodesNotIn(prev_state, current_config)
    ELSE <<>>

\* init_nodes returns None when the config is empty or both queues are
\* empty (lines 282-284 and 303-305).
NodesInitSkipped(current_config, prev_state) ==
    \/ current_config = <<>>
    \/ /\ NodeInstallQueue(current_config, prev_state) = <<>>
       /\ NodeRemoveQueue(current_config, prev_state) = <<>>

\* ----------------------------------------------------------------- models
\* models.py Model: url and the resolved path (COMFYUI_PATH / dir / filename)
Model(u, p) == [url |-> u, path |-> p]

ModelPaths(models) == {models[i].path : i \in 1..Len(models)}
ModelUrls(models) == {models[i].url : i \in 1..Len(models)}

\* Model.__eq__ / __hash__: equality by path only
ModelIn(model, lst) == model.path \in ModelPaths(lst)

RECURSIVE UniqueModels(_, _)
\* ModelsManager._load_config, the loop: a model whose path is already in
\* the set is skipped, so the first entry of each path is the one kept
UniqueModels(s, seen) ==
    IF s = <<>> THEN <<>>
    ELSE IF Head(s).path \in seen THEN UniqueModels(Tail(s), seen)
         ELSE <<Head(s)>> \o UniqueModels(Tail(s), seen \cup {Head(s).path})

RECURSIVE ModelsDuplicatesReported(_, _)
\* ModelsManager._load_config lines 110-112: the entries logged as "Skip
\* duplicate model", those whose path is in the set when they come up
ModelsDuplicatesReported(s, seen) ==
    IF s = <<>> THEN <<>>
    ELSE IF Head(s).path \in seen
         THEN <<Head(s)>> \o ModelsDuplicatesReported(Tail(s), seen)
         ELSE ModelsDuplicatesReported(Tail(s), seen \cup {Head(s).path})

\* all orderings of the elements of a duplicate-free list
Orderings(s) ==
    {t \in [1..Len(s) -> Range(s)] : Range(t) = Range(s)}

\* ModelsManager._load_config returns list(models) of a Python set: the
\* retained entries in an order the program does not control.
ModelsLoadConfig(models_config) == Orderings(UniqueModels(models_config, {}))

\* ModelsManager.__init__: prev_config = _load_config(prev) if prev else []
ModelsPrevConfig(prev) == IF prev # <<>> THEN ModelsLoadConfig(prev) ELSE {<<>>}

\* {model.url: model for model in lst}[u]: the last entry with that url wins
UrlToModel(lst, u) ==
    lst[CHOOSE i \in 1..Len(lst) :
            /\ lst[i].url = u
            /\ \A j \in (i+1)..Len(lst) : lst[j].url # u]

RECURSIVE ScanCurrent(_, _, _)
\* init_models lines 136-153: the loop over current_config; q carries
\* move_queue, download_queue and processed_urls
ScanCurrent(cur, prev, q) ==
    IF cur = <<>> THEN q
    ELSE LET m == Head(cur) IN
         IF m.url \in q.processed_urls THEN ScanCurrent(Tail(cur), prev, q)
         ELSE IF m.url \in ModelUrls(prev)
         THEN LET pm == UrlToModel(prev, m.url) IN
              IF m.path # pm.path
              THEN ScanCurrent(Tail(cur), prev,
                     [q EXCEPT !.move_queue = Append(@, [prev_model |-> pm, current_model |-> m]),
                               !.processed_urls = @ \cup {m.url}])
              ELSE ScanCurrent(Tail(cur), prev, q)
         ELSE ScanCurrent(Tail(cur), prev,
                     [q EXCEPT !.download_queue = Append(@, m),
                               !.processed_urls = @ \cup {m.url}])

RECURSIVE ScanPrev(_, _, _)
\* init_models lines 156-161: the loop over prev_config; q carries
\* remove_queue and processed_urls
ScanPrev(prev, curUrls, q) ==
    IF prev = <<>> THEN q
    ELSE LET pm == Head(prev) IN
         IF pm.url \in q.processed_urls THEN ScanPrev(Tail(prev), curUrls, q)
         ELSE IF pm.url \notin curUrls
         THEN ScanPrev(Tail(prev), curUrls,
                     [q EXCEPT !.remove_queue = Append(@, pm),
                               !.processed_urls = @ \cup {pm.url}])
         ELSE ScanPrev(Tail(prev), curUrls, q)

EmptyQueues ==
    [move_queue |-> <<>>, download_queue |-> <<>>, remove_queue |-> <<>>,
     processed_urls |-> {}]

\* init_models lines 126-163: the three queues for loaded lists cur, prev
ModelQueues(cur, prev) ==
    IF prev # <<>>
    THEN ScanPrev(prev, ModelUrls(cur), ScanCurrent(cur, prev, EmptyQueues))
    ELSE [EmptyQueues EXCEPT !.download_queue = cur]

MoveGuard_Overwrite(files, src, dst) ==
    IF src \notin files THEN "None"
    ELSE IF src = dst THEN "None"
    ELSE "try"

\* utils.move_file, the guards before the rename (lines 90-98): "None" when
\* nothing is to be done, "try" when the rename is attempted
MoveGuard(files, src, dst) ==
    IF src \notin files THEN "None"
    ELSE IF dst \in files THEN "None"
    ELSE IF src = dst THEN "None"
    ELSE "try"

\* --------------------------------------------------------- state document
Categories == {"custom_nodes", "models"}

\* the persisted state document (BOOT_PREV_STATE_PATH) and the dicts
\* a parsed state document: type is the JSON type of the top-level value
\* ("dict" when it is an object), keys the set of categories present,
\* nonlist the categories whose value is a number instead of a list
Doc(keys, nodes, models) ==
    [type |-> "dict", nonlist |-> {}, keys |-> keys, custom_nodes |-> nodes,
     models |-> models]

\* prev_state / _current_state when empty ({})
EmptyDoc == Doc({}, <<>>, <<>>)

\* dict.get(category, [])
Get(doc, category) ==
    IF category \in doc.keys
    THEN (IF category = "custom_nodes" THEN doc.custom_nodes ELSE doc.models)
    ELSE <<>>

\* StateManager.update, the assignment (lines 81-84)
DocUpdate(doc, category, items) ==
    IF category = "custom_nodes"
    THEN [doc EXCEPT !.keys = @ \cup {category},
                     !.custom_nodes = IF category \in doc.keys THEN @ \o items ELSE items]
    ELSE [doc EXCEPT !.keys = @ \cup {category},
                     !.models = IF category \in doc.keys THEN @ \o items ELSE items]

\* StateManager.write, json.dumps(config, default=json_default): json_default
\* converts Path values only and raises TypeError for every other object, so
\* a list that holds a Node or a Model object cannot be serialised.
JsonDumpsOk(doc) == doc.custom_nodes = <<>> /\ doc.models = <<>>

\* StateManager.write: the file is replaced only when json.dumps succeeded;
\* the exception is caught and the old file stays.
StateWrite(file, doc) ==
    IF JsonDumpsOk(doc) /\ file.kind # "dir" THEN [kind |-> "file", doc |-> doc] ELSE file

\* StateManager._load_prev_state (lines 51-74): the parsed content of a
\* file, {} for content that does not parse, for a directory and for a
\* missing path
LoadPrevState(file) ==
    IF file.kind = "file" /\ file.doc.type # "corrupt" THEN file.doc ELSE EmptyDoc

\* StateManager._load_prev_state lines 64-69: a directory at the state path
\* is removed (or stays, when rmtree fails)
LoadStateFile(file) ==
    IF file.kind = "dir" THEN {file, [kind |-> "absent", doc |-> EmptyDoc]} ELSE {file}

\* prev_state.get(category, []) in startup (lines 218, 236) and the loop
\* over the value in _load_config: "AttributeError" when prev_state is not
\* a dict, "TypeError" when the value of the category cannot be iterated
PrevStateError(prev, category) ==
    IF prev.type # "dict" THEN "AttributeError"
    ELSE IF category \in prev.nonlist THEN "TypeError"
    ELSE "none"

\* constants.py: UPDATE_NODE defaults to false, INIT_NODE / INIT_MODEL to true
BOOT_UPDATE_NODE == FALSE
BOOT_INIT_NODE == TRUE
BOOT_INIT_MODEL == TRUE

\* boot.py line 239-246: startup unpacks the result of init_models into
\* this many names
ModelsResultArity == 5

\* Model.purge_redundancy (lines 37-54) for the Model objects built from
\* entries: where <filename>.aria2 exists, the marker and the file go
PurgedPaths(marks, entries) == marks \cap ModelPaths(entries)

\* ------------------------------------------------------------------ state
VARIABLES
    cfg,            \* ConfigManager.config: the merged desired config
    stateFile,      \* the persisted state document on disk
    nodeDirs,       \* names of the nodes whose directory exists
    modelFiles,     \* paths of the model files that exist
    pc,             \* position of ComfyUILauncher.startup
    run,            \* number of the current run (boot)
    prev_state,     \* StateManager._prev_state
    current_state,  \* StateManager._current_state
    nm,             \* NodesManager and the locals of init_nodes
    mm,             \* ModelsManager and the locals of init_models
    launched,       \* the host application was started in this run
    abort,          \* the exception that ended this run before launch
    last,           \* what the previous run did (history)
    markers,        \* paths of the model files that have a <filename>.aria2 marker
    env,            \* the launcher's paths on disk and the hooks it has run
    nd,             \* one Node, its path on disk and the commands run for it
    dl,             \* one call of Model.download / Downloader.download
    host,           \* the launch of the host application and the signals
    cm,             \* one call of ConfigManager.load_config
    ut              \* one use of a utils.py helper: move_file or Progress

\* the variables of the method-level specifications
aux == <<nd, dl, host, cm, ut>>

\* the variables of the startup sequence
main == <<cfg, stateFile, nodeDirs, modelFiles, pc, run, prev_state,
          current_state, nm, mm, launched, abort, last, markers, env>>

vars == <<main, aux>>

NmInit ==
    [ran |-> FALSE, result |-> "None", current_config |-> <<>>, prev_state |-> <<>>,
     setup_exists |-> FALSE, install_queue |-> <<>>, remove_queue |-> <<>>,
     installed |-> <<>>, removed |-> <<>>, existed |-> <<>>, failed |-> <<>>,
     setup_args |-> <<>>, log |-> <<>>, i |-> 1]

MmInit ==
    [ran |-> FALSE, current_config |-> <<>>, prev_config |-> <<>>,
     move_queue |-> <<>>, remove_queue |-> <<>>, download_queue |-> <<>>,
     downloaded |-> <<>>, removed |-> <<>>, moved |-> <<>>, failed |-> <<>>,
     purged |-> {}, log |-> <<>>, i |-> 1]

\* history: one entry per executed action of a loop, with the resource it
\* acted on and the result the action returned
Done(kind, resource, result) == [kind |-> kind, resource |-> resource, result |-> result]

\* the method-level variables while the startup sequence is modelled
NdIdle == [pc |-> "idle"]
DlIdle == [pc |-> "idle"]
HostIdle == [pc |-> "idle"]
CmIdle == [pc |-> "idle"]
UtIdle == [pc |-> "idle"]

LastInit ==
    [nm |-> NmInit, mm |-> MmInit, launched |-> FALSE, abort |-> "none",
     file |-> [kind |-> "absent", doc |-> EmptyDoc]]

RECURSIVE SubLists(_)
\* the lists obtained from s by leaving entries out
SubLists(s) ==
    IF s = <<>> THEN {<<>>}
    ELSE LET rest == SubLists(Tail(s)) IN rest \cup {<<Head(s)>> \o t : t \in rest}

\* the node lists and model lists a config or a state document may hold
NodeLists == SubLists([i \in 1..MaxNodes |-> Node(NodeCatalog[i], "registry", "v1")])
OldNodeLists == SeqsUpTo({Node(x, "registry", "v2") : x \in OldNodeNames}, MaxPrevLen)
ModelLists(n) == SeqsUpTo({Model(u, p) : u \in Urls, p \in Paths}, n)

\* state documents found at the first boot: none, or one left by an
\* earlier boot
InitialStateFiles ==
    {[kind |-> "absent", doc |-> EmptyDoc]} \cup
    {[kind |-> "file",
      doc |-> Doc(Categories, ns, ms)] :
        ns \in {NodesLoadConfig(l) : l \in OldNodeLists},
        ms \in {UniqueModels(l, {}) : l \in ModelLists(MaxPrevLen)}}

\* the state after construction for a config among cfgs and a state
\* document among files; the disk holds what the state document records,
\* and without a state document any of the node directories in dirs (an
\* image that installed nodes before state was tracked); marks are the
\* sets of interrupted downloads (partial file with its marker) an earlier
\* boot may have left
InitInputs(cfgs, files, dirs, marks) ==
    /\ cfg \in cfgs
    /\ stateFile \in files
    /\ nodeDirs \in IF stateFile.kind = "file"
                    THEN {Names(Get(stateFile.doc, "custom_nodes"))}
                    ELSE SUBSET dirs
    /\ markers \in marks
    /\ modelFiles = ModelPaths(Get(stateFile.doc, "models")) \cup markers
    /\ run = 1
    /\ prev_state = EmptyDoc
    /\ current_state = EmptyDoc
    /\ nm = NmInit
    /\ mm = MmInit
    /\ launched = FALSE
    /\ abort = "none"
    /\ last = LastInit

\* the launcher constructed (lines 104-137) over a valid application root
\* and with both script directories in place
EnvInit ==
    [app_path |-> "dir", pre_init_scripts |-> "dir", post_init_scripts |-> "dir",
     hooks |-> <<>>, update_nodes |-> BOOT_UPDATE_NODE]

InitMain(cfgs, files, dirs, marks) ==
    /\ InitInputs(cfgs, files, dirs, marks)
    /\ pc = "load"
    /\ env = EnvInit

\* the startup sequence from its first step, the method-level variables idle
InitOf(cfgs, files, dirs, marks) ==
    /\ InitMain(cfgs, files, dirs, marks)
    /\ nd = NdIdle
    /\ dl = DlIdle
    /\ cm = CmIdle
    /\ ut = UtIdle
    /\ host = HostIdle

\* the startup variables while one method is modelled on its own
MainIdle ==
    InitMain({[custom_nodes |-> <<>>, models |-> <<>>]},
             {[kind |-> "absent", doc |-> EmptyDoc]}, {}, {{}})

Init ==
    InitOf([custom_nodes : NodeLists, models : ModelLists(MaxModelCfg)],
           InitialStateFiles, {}, {{}})

\* single run, nodes only: raw config lists (duplicates included) against
\* state documents that record other versions of the nodes
RichNodeCfgs ==
    [custom_nodes : SeqsUpTo({Node(x, "registry", "v1") : x \in RichNodeNames},
                             MaxNodeCfgLen),
     models : {<<>>}]

RichNodeFiles ==
    {[kind |-> "absent", doc |-> EmptyDoc]} \cup
    {[kind |-> "file",
      doc |-> Doc({"custom_nodes"}, NodesLoadConfig(l), <<>>)] :
        l \in SeqsUpTo({Node(x, "git", "v2") : x \in RichOldNodeNames}, MaxNodePrevLen)}

InitNodes == InitOf(RichNodeCfgs, RichNodeFiles, RichNodeNames, {{}})

\* single run, models only
RichModels ==
    {Model(u, p) : u \in Urls, p \in RichPaths} \cup {Model(u, "p3") : u \in RichUrls}

RichModelCfgs ==
    [custom_nodes : {<<>>}, models : SeqsUpTo(RichModels, MaxModelCfgLen)]

RichModelFiles ==
    {[kind |-> "absent", doc |-> EmptyDoc]} \cup
    {[kind |-> "file",
      doc |-> Doc({"models"}, <<>>, UniqueModels(l, {}))] :
        l \in SeqsUpTo(RichModels, MaxModelPrevLen)}

InitModels == InitOf(RichModelCfgs, RichModelFiles, {}, {{}})

\* single run, models only, shorter lists: an earlier boot may have left
\* one interrupted download
RichMarkers == {{}, {"p1"}}

InitRepair ==
    InitOf([custom_nodes : {<<>>}, models : SeqsUpTo(RichModels, MaxModelCfg)],
           {[kind |-> "absent", doc |-> EmptyDoc]} \cup
           {[kind |-> "file",
             doc |-> Doc({"models"}, <<>>, UniqueModels(l, {}))] :
               l \in SeqsUpTo(RichModels, MaxPrevLen)},
           {}, RichMarkers)

\* ---------------------------------------------------------- node actions
\* Node.install (lines 141-187): the possible (result, directory exists
\* afterwards) pairs for a node whose directory exists or not
NodeInstallOutcomes(node, exists, setup_exists) ==
    IF is_excluded(node) THEN {[result |-> "None", dir |-> exists]}
    ELSE IF exists
    THEN (IF setup_exists
          THEN {[result |-> "True", dir |-> TRUE], [result |-> "False", dir |-> TRUE]}
          ELSE {[result |-> "None", dir |-> TRUE]})
    ELSE IF node.source = "registry"
    THEN {[result |-> "True", dir |-> TRUE],
          [result |-> "None", dir |-> FALSE],
          [result |-> "False", dir |-> FALSE]}
    ELSE {[result |-> "True", dir |-> TRUE], [result |-> "False", dir |-> FALSE]}

\* Node.remove (lines 189-211)
NodeRemoveOutcomes(node, exists) ==
    IF is_excluded(node) THEN {[result |-> "None", dir |-> exists]}
    ELSE IF ~exists THEN {[result |-> "None", dir |-> FALSE]}
    ELSE {[result |-> "True", dir |-> FALSE], [result |-> "False", dir |-> TRUE]}

SetDir(dirs, name, exists) == IF exists THEN dirs \cup {name} ELSE dirs \ {name}

\* where init_nodes continues after the queues are known / after a phase
\* (variant: the remove loop placed ahead of the install loop)
NodePcAfterQueues_RemoveFirst(install_queue, remove_queue) ==
    IF remove_queue # <<>> THEN "node_remove"
    ELSE IF install_queue # <<>> THEN "node_install"
    ELSE "nodes_done"

\* where init_nodes continues after the queues are known / after a phase:
\* the install loop, then the remove loop
NodePcAfterQueues(install_queue, remove_queue) ==
    IF install_queue # <<>> THEN "node_install"
    ELSE IF remove_queue # <<>> THEN "node_remove"
    ELSE "nodes_done"

\* startup step 1 (lines 196-205): load the config and the previous state
Load ==
    /\ pc = "load"
    /\ prev_state' = LoadPrevState(stateFile)
    /\ current_state' = EmptyDoc
    /\ stateFile' \in LoadStateFile(stateFile)
    /\ pc' = "pre_init"
    /\ UNCHANGED <<cfg, nodeDirs, modelFiles, run, nm, mm, launched, abort,
                   last, markers, env, aux>>

\* _pre_init_hook / _post_init_hook (lines 172-190) on a scripts path: the
\* scripts of a directory are executed, a plain file is removed
RunHook(e, which) ==
    LET kind == IF which = "pre-init" THEN e.pre_init_scripts ELSE e.post_init_scripts
        ran == IF kind = "dir" THEN [e EXCEPT !.hooks = Append(@, which)] ELSE e
    IN IF kind # "file" THEN ran
       ELSE IF which = "pre-init" THEN [ran EXCEPT !.pre_init_scripts = "absent"]
       ELSE [ran EXCEPT !.post_init_scripts = "absent"]

\* `if prev_state` (line 211): an empty dict is false; the model's documents
\* of another type stand for non-empty values
Truthy(prev) == prev.type # "dict" \/ prev.keys # {}

\* NodesManager.update_all_nodes (lines 368-379): the command is run without
\* check inside a try, True or False is returned and nothing is raised
update_all_nodes(ok) == IF ok THEN "update all" ELSE "update all failed"

\* startup steps 2 and 3 (lines 207-212): the pre-init hook, then
\* update_all_nodes when there is a previous state and UPDATE_NODE is on
PreInitHook ==
    /\ pc = "pre_init"
    /\ \E ok \in BOOLEAN :
         LET e == RunHook(env, "pre-init") IN
         env' = IF Truthy(prev_state) /\ env.update_nodes
                THEN [e EXCEPT !.hooks = Append(@, update_all_nodes(ok))] ELSE e
    /\ pc' = "nodes"
    /\ UNCHANGED <<cfg, stateFile, nodeDirs, modelFiles, run, prev_state, current_state,
                   nm, mm, launched, abort, last, markers, aux>>

\* startup step 4 (lines 215-220) with NodesManager.__init__ and the queue
\* computation of init_nodes (lines 282-305); a previous state that is not
\* a dict, or whose custom_nodes value cannot be iterated, raises out of
\* startup
NodesBegin ==
    /\ pc = "nodes"
    /\ IF BOOT_INIT_NODE /\ cfg.custom_nodes # <<>>
       THEN IF PrevStateError(prev_state, "custom_nodes") # "none"
            THEN /\ abort' = PrevStateError(prev_state, "custom_nodes")
                 /\ pc' = "aborted"
                 /\ nm' = nm
            ELSE
            LET cur == NodesLoadConfig(cfg.custom_nodes)
                prev == NodesPrevState(Get(prev_state, "custom_nodes"))
                iq == NodeInstallQueue(cur, prev)
                rq == NodeRemoveQueue(cur, prev)
            IN IF NodesInitSkipped(cur, prev)
               THEN /\ nm' = [NmInit EXCEPT !.ran = TRUE, !.current_config = cur,
                                            !.prev_state = prev]
                    /\ pc' = "models"
                    /\ abort' = abort
               ELSE /\ nm' = [NmInit EXCEPT !.ran = TRUE, !.result = "tuple",
                                            !.current_config = cur, !.prev_state = prev,
                                            !.setup_exists = NodeSetupExists(prev),
                                            !.install_queue = iq, !.remove_queue = rq]
                    /\ pc' = NodePcAfterQueues(iq, rq)
                    /\ abort' = abort
       ELSE /\ nm' = NmInit
            /\ pc' = "models"
            /\ abort' = abort
    /\ UNCHANGED <<cfg, stateFile, nodeDirs, modelFiles, run, prev_state,
                   current_state, mm, launched, last, markers, env, aux>>

\* init_nodes lines 313-326: one iteration of the install loop; setup_args
\* records the setup_exists argument of each node.install call (line 320)
NodeInstall ==
    /\ pc = "node_install"
    /\ LET node == nm.install_queue[nm.i] IN
       \E o \in NodeInstallOutcomes(node, node.name \in nodeDirs, nm.setup_exists) :
         /\ nodeDirs' = SetDir(nodeDirs, node.name, o.dir)
         /\ nm' = [nm EXCEPT
                     !.installed = IF o.result = "True" THEN Append(@, node) ELSE @,
                     !.existed = IF o.result = "None" THEN Append(@, node) ELSE @,
                     !.failed = IF o.result = "False" THEN Append(@, node) ELSE @,
                     !.setup_args = Append(@, nm.setup_exists),
                     !.log = Append(@, Done("install", node, o.result)),
                     !.i = IF nm.i < Len(nm.install_queue) THEN nm.i + 1 ELSE 1]
         /\ pc' = IF nm.i < Len(nm.install_queue) THEN "node_install"
                  ELSE NodePcAfterQueues(<<>>, nm.remove_queue)
    /\ UNCHANGED <<cfg, stateFile, modelFiles, run, prev_state, current_state,
                   mm, launched, abort, last, markers, env, aux>>

\* init_nodes lines 329-341: one iteration of the remove loop
NodeRemove ==
    /\ pc = "node_remove"
    /\ LET node == nm.remove_queue[nm.i] IN
       \E o \in NodeRemoveOutcomes(node, node.name \in nodeDirs) :
         /\ nodeDirs' = SetDir(nodeDirs, node.name, o.dir)
         /\ nm' = [nm EXCEPT
                     !.removed = IF o.result = "True" THEN Append(@, node) ELSE @,
                     !.failed = IF o.result = "False" THEN Append(@, node) ELSE @,
                     !.log = Append(@, Done("remove", node, o.result)),
                     !.i = IF nm.i < Len(nm.remove_queue) THEN nm.i + 1 ELSE 1]
         /\ pc' = IF nm.i < Len(nm.remove_queue) THEN "node_remove" ELSE "nodes_done"
    /\ UNCHANGED <<cfg, stateFile, modelFiles, run, prev_state, current_state,
                   mm, launched, abort, last, markers, env, aux>>

\* startup lines 221-230: the nodes that did not fail are handed to
\* StateManager.update, which writes the state document
NodesDone ==
    /\ pc = "nodes_done"
    /\ LET nodes_successed == NodesNotIn(nm.current_config, nm.failed)
           doc == DocUpdate(current_state, "custom_nodes", nodes_successed)
       IN /\ current_state' = doc
          /\ stateFile' = StateWrite(stateFile, doc)
    /\ pc' = "models"
    /\ UNCHANGED <<cfg, nodeDirs, modelFiles, run, prev_state, nm, mm,
                   launched, abort, last, markers, env, aux>>

\* --------------------------------------------------------- model actions
\* where init_models continues after the queues are known / after a phase
\* (variant: the remove loop placed ahead of the move loop)
ModelPcAfter_RemoveFirst(phase, q) ==
    IF phase = "queues" /\ q.remove_queue # <<>> THEN "model_remove"
    ELSE IF phase = "queues" /\ q.move_queue # <<>> THEN "model_move"
    ELSE IF phase \in {"queues", "move", "remove"} /\ q.download_queue # <<>>
    THEN "model_download"
    ELSE "models_done"

\* where init_models continues after the queues are known / after a phase:
\* the move loop, then the remove loop, then the download loop
ModelPcAfter(phase, q) ==
    IF phase = "queues" /\ q.move_queue # <<>> THEN "model_move"
    ELSE IF phase \in {"queues", "move"} /\ q.remove_queue # <<>> THEN "model_remove"
    ELSE IF phase \in {"queues", "move", "remove"} /\ q.download_queue # <<>>
    THEN "model_download"
    ELSE "models_done"

\* startup step 5 (lines 233-238) with ModelsManager.__init__ (lines 90-93:
\* every entry of both lists becomes a Model, whose construction purges an
\* incomplete download; Downloader() raises when the transfer daemon cannot
\* be started) and the queue computation of init_models (lines 122-163)
ModelsBegin ==
    /\ pc = "models"
    /\ IF BOOT_INIT_MODEL /\ cfg.models # <<>> /\ PrevStateError(prev_state, "models") # "none"
       THEN LET purged == IF prev_state.type = "dict"
                          THEN PurgedPaths(markers, cfg.models) ELSE {}
            IN /\ abort' = PrevStateError(prev_state, "models")
               /\ pc' = "aborted"
               /\ mm' = mm
               /\ markers' = markers \ purged
               /\ modelFiles' = modelFiles \ purged
       ELSE IF BOOT_INIT_MODEL /\ cfg.models # <<>>
       THEN \E cur \in ModelsLoadConfig(cfg.models),
               prev \in ModelsPrevConfig(Get(prev_state, "models")),
               daemon \in BOOLEAN :
              LET purged == PurgedPaths(markers, cfg.models \o Get(prev_state, "models"))
              IN /\ markers' = markers \ purged
                 /\ modelFiles' = modelFiles \ purged
                 /\ IF ~daemon
                    THEN /\ abort' = "downloader"
                         /\ pc' = "aborted"
                         /\ mm' = mm
                    ELSE LET q == ModelQueues(cur, prev) IN
                         /\ mm' = [MmInit EXCEPT !.ran = TRUE, !.current_config = cur,
                                                 !.prev_config = prev,
                                                 !.move_queue = q.move_queue,
                                                 !.remove_queue = q.remove_queue,
                                                 !.download_queue = q.download_queue,
                                                 !.purged = purged]
                         /\ pc' = ModelPcAfter("queues", q)
                         /\ abort' = abort
       ELSE /\ mm' = MmInit
            /\ pc' = "post_init"
            /\ abort' = abort
            /\ UNCHANGED <<modelFiles, markers>>
    /\ UNCHANGED <<cfg, stateFile, nodeDirs, run, prev_state,
                   current_state, nm, launched, last, env, aux>>

\* init_models lines 171-186: one iteration of the move loop; a move_file
\* result of None or False puts prev_model into failed
ModelMove ==
    /\ pc = "model_move"
    /\ LET task == mm.move_queue[mm.i]
           src == task.prev_model.path
           dst == task.current_model.path
           last_one == mm.i = Len(mm.move_queue)
       IN \E renamed \in BOOLEAN :
            LET res == IF MoveGuard(modelFiles, src, dst) = "None" THEN "None"
                       ELSE IF renamed THEN "True" ELSE "False"
            IN /\ modelFiles' = IF res = "True" THEN (modelFiles \ {src}) \cup {dst}
                                ELSE modelFiles
               /\ mm' = [mm EXCEPT
                           !.moved = IF res = "True" THEN Append(@, task.current_model) ELSE @,
                           !.failed = IF res # "True" THEN Append(@, task.prev_model) ELSE @,
                           !.log = Append(@, Done("move", task.prev_model, res)),
                           !.i = IF last_one THEN 1 ELSE mm.i + 1]
               /\ pc' = IF last_one THEN ModelPcAfter("move", mm) ELSE "model_move"
    /\ UNCHANGED <<cfg, stateFile, nodeDirs, run, prev_state, current_state, nm,
                   launched, abort, last, markers, env, aux>>

\* Model.remove (lines 75-86)
ModelRemoveOutcomes(exists) ==
    IF ~exists THEN {"None"} ELSE {"True", "False"}

\* init_models lines 188-201: one iteration of the remove loop
ModelRemove ==
    /\ pc = "model_remove"
    /\ LET model == mm.remove_queue[mm.i]
           last_one == mm.i = Len(mm.remove_queue)
       IN \E res \in ModelRemoveOutcomes(model.path \in modelFiles) :
            /\ modelFiles' = IF res = "True" THEN modelFiles \ {model.path} ELSE modelFiles
            /\ mm' = [mm EXCEPT
                        !.removed = IF res = "True" THEN Append(@, model) ELSE @,
                        !.failed = IF res = "False" THEN Append(@, model) ELSE @,
                        !.log = Append(@, Done("remove", model, res)),
                        !.i = IF last_one THEN 1 ELSE mm.i + 1]
            /\ pc' = IF last_one THEN ModelPcAfter("remove", mm) ELSE "model_remove"
    /\ UNCHANGED <<cfg, stateFile, nodeDirs, run, prev_state, current_state, nm,
                   launched, abort, last, markers, env, aux>>

\* Model.download (lines 59-73) with Downloader.download's result
ModelDownloadOutcomes(exists) ==
    IF exists THEN {"None"} ELSE {"True", "False"}

\* init_models lines 203-215: one iteration of the download loop; only a
\* result of False puts the model into failed
ModelDownload ==
    /\ pc = "model_download"
    /\ LET model == mm.download_queue[mm.i]
           last_one == mm.i = Len(mm.download_queue)
       IN \E res \in ModelDownloadOutcomes(model.path \in modelFiles) :
            /\ modelFiles' = IF res = "True" THEN modelFiles \cup {model.path} ELSE modelFiles
            /\ mm' = [mm EXCEPT
                        !.downloaded = IF res # "False" THEN Append(@, model) ELSE @,
                        !.failed = IF res = "False" THEN Append(@, model) ELSE @,
                        !.log = Append(@, Done("download", model, res)),
                        !.i = IF last_one THEN 1 ELSE mm.i + 1]
            /\ pc' = IF last_one THEN "models_done" ELSE "model_download"
    /\ UNCHANGED <<cfg, stateFile, nodeDirs, run, prev_state, current_state, nm,
                   launched, abort, last, markers, env, aux>>

\* init_models line 217: the tuple it returns
ModelsInitResult(m) == <<m.downloaded, m.removed, m.moved, m.failed>>

RECURSIVE ModelsNotIn(_, _)
\* [model for model in a if model not in b]
ModelsNotIn(a, b) ==
    IF a = <<>> THEN <<>>
    ELSE IF ModelIn(Head(a), b) THEN ModelsNotIn(Tail(a), b)
         ELSE <<Head(a)>> \o ModelsNotIn(Tail(a), b)

\* startup lines 239-252: the result of init_models is unpacked into five
\* names (ValueError when it has another length, which nothing catches);
\* then the models that did not fail are handed to StateManager.update
ModelsDone ==
    /\ pc = "models_done"
    /\ LET result == ModelsInitResult(mm) IN
       IF Len(result) # ModelsResultArity
       THEN /\ abort' = "unpack"
            /\ pc' = "aborted"
            /\ UNCHANGED <<current_state, stateFile>>
       ELSE LET models_failed == result[Len(result)]
                models_successed == ModelsNotIn(mm.current_config, models_failed)
                doc == DocUpdate(current_state, "models", models_successed)
            IN /\ current_state' = doc
               /\ stateFile' = StateWrite(stateFile, doc)
               /\ pc' = "post_init"
               /\ abort' = abort
    /\ UNCHANGED <<cfg, nodeDirs, modelFiles, run, prev_state, nm, mm, launched, last, markers, env, aux>>

\* startup step 6 (lines 253-254): the post-init hook
PostInitHook ==
    /\ pc = "post_init"
    /\ env' = RunHook(env, "post-init")
    /\ pc' = "summary"
    /\ UNCHANGED <<cfg, stateFile, nodeDirs, modelFiles, run, prev_state, current_state,
                   nm, mm, launched, abort, last, markers, aux>>

\* startup lines 276-280 and 299-303: when a category was reconciled and
\* has failures, the failed list is printed with
\* print_list_tree(failed, level=logging.WARNING); print_list_tree
\* (utils.py lines 242-244) has no level parameter, so the call raises
\* TypeError
SummaryError(n, doc, m) ==
    \/ BOOT_INIT_NODE /\ n.result = "tuple" /\ n.failed # <<>>
    \/ BOOT_INIT_MODEL /\ "models" \in doc.keys /\ m.failed # <<>>

\* startup step 7 (lines 256-305): the summary; its exception leaves
\* startup before the launch
Summary ==
    /\ pc = "summary"
    /\ IF SummaryError(nm, current_state, mm)
       THEN /\ abort' = "summary"
            /\ pc' = "aborted"
       ELSE /\ abort' = abort
            /\ pc' = "launch"
    /\ UNCHANGED <<cfg, stateFile, nodeDirs, modelFiles, run, prev_state, current_state,
                   nm, mm, launched, last, markers, env, aux>>

\* startup step 8 (lines 307-316): the host application is started
Launch ==
    /\ pc = "launch"
    /\ launched' = TRUE
    /\ pc' = "exited"
    /\ UNCHANGED <<cfg, stateFile, nodeDirs, modelFiles, run, prev_state,
                   current_state, nm, mm, abort, last, markers, env, aux>>

\* the container is started again with the same config: the next run
Reboot ==
    /\ pc \in {"exited", "aborted"}
    /\ run < MaxRuns
    /\ run' = run + 1
    /\ last' = [nm |-> nm, mm |-> mm, launched |-> launched, abort |-> abort,
                file |-> stateFile]
    /\ pc' = "load"
    /\ prev_state' = EmptyDoc
    /\ current_state' = EmptyDoc
    /\ nm' = NmInit
    /\ mm' = MmInit
    /\ launched' = FALSE
    /\ abort' = "none"
    /\ env' = [env EXCEPT !.hooks = <<>>]
    /\ UNCHANGED <<cfg, stateFile, nodeDirs, modelFiles, markers, aux>>

Next ==
    \/ Load
    \/ PreInitHook
    \/ NodesBegin
    \/ NodeInstall
    \/ NodeRemove
    \/ NodesDone
    \/ ModelsBegin
    \/ ModelMove
    \/ ModelRemove
    \/ ModelDownload
    \/ ModelsDone
    \/ PostInitHook
    \/ Summary
    \/ Launch
    \/ Reboot

Spec == Init /\ [][Next]_vars

\* one run of the node phase on the wider node inputs
NextNodes ==
    \/ Load
    \/ PreInitHook
    \/ NodesBegin
    \/ NodeInstall
    \/ NodeRemove
    \/ NodesDone

SpecNodes == InitNodes /\ [][NextNodes]_vars

\* one run of the model phase on the wider model inputs
NextModels ==
    \/ Load
    \/ PreInitHook
    \/ NodesBegin
    \/ ModelsBegin
    \/ ModelMove
    \/ ModelRemove
    \/ ModelDownload
    \/ ModelsDone
    \/ PostInitHook
    \/ Summary
    \/ Launch

SpecModels == InitModels /\ [][NextModels]_vars

\* one run of the model phase over interrupted downloads
SpecRepair == InitRepair /\ [][NextModels]_vars

\* =========================================================== Node methods
\* one Node object, the state of its path under custom_nodes, and a few
\* install / remove calls on it
\* what the node's path is on disk: nothing, a plain file, a directory that
\* is a valid git repository ("dir"), a directory that is not ("baddir"),
\* something that is neither a file nor a directory, such as a FIFO or a
\* socket ("special")
PathKinds == {"absent", "file", "dir", "baddir", "special"}

\* Node.__post_init__ (lines 37-46): a registry node without a version gets
\* "nightly"
NodePostInit(name, source, version) ==
    Node(name, source, IF source = "registry" /\ version = "none" THEN "nightly" ELSE version)

UnitNodes ==
    {NodePostInit(n, s, v) : n \in BOOT_INIT_NODE_EXCLUDE \cup {"x"},
                             s \in {"registry", "git"}, v \in {"v1", "none"}}

\* a probe that never finds the node
NodeIsExists_Never(node, kind) ==
    [exists |-> FALSE, kind |-> kind]

\* Node.is_exists (lines 63-78): the answer, and what is left at the path;
\* the last line returns False for a path that exists and is neither a file
\* nor a directory
NodeIsExists(node, kind) ==
    IF kind = "absent" THEN [exists |-> FALSE, kind |-> "absent"]
    ELSE IF kind = "file" THEN [exists |-> FALSE, kind |-> "absent"]
    ELSE IF kind = "special" THEN [exists |-> FALSE, kind |-> "special"]
    ELSE IF node.source = "git" /\ kind = "baddir"
    THEN [exists |-> FALSE, kind |-> "absent"]
    ELSE [exists |-> TRUE, kind |-> kind]

\* what cm-cli install can print, line by line
OutputLines ==
    {"ERROR: msg", "ERROR: An error occurred while installing", "",
     "1/1 [INSTALLED] msg", "1/1 [SKIP] msg", "1/1 [ENABLED] msg",
     "1/1 [DISABLED] msg", "text"}

Outputs == UNION {[1..n -> OutputLines] : n \in 0..MaxLines}

\* errors_pattern r"ERROR:(?P<msg>.+)" (line 110)
IsErrorLine(l) == l \in {"ERROR: msg", "ERROR: An error occurred while installing"}

\* result_pattern r"1\/1\s\[(?P<result>.+?)\]\s(?P<msg>.+)" (line 125) and
\* its group "result"
ResultMarker(l) ==
    IF l = "1/1 [INSTALLED] msg" THEN "INSTALLED"
    ELSE IF l = "1/1 [SKIP] msg" THEN "SKIP"
    ELSE IF l = "1/1 [ENABLED] msg" THEN "ENABLED"
    ELSE IF l = "1/1 [DISABLED] msg" THEN "DISABLED"
    ELSE "none"

FirstLine(output, Test(_)) ==
    CHOOSE i \in 1..Len(output) : Test(output[i]) /\ \A j \in 1..(i-1) : ~Test(output[j])

\* the registry classification with the error lines ignored
CheckRegistryInstall_NoErrors(output) ==
    LET IsResult(l) == ResultMarker(l) # "none" IN
    IF \E i \in 1..Len(output) : IsResult(output[i])
    THEN LET result == ResultMarker(output[FirstLine(output, IsResult)])
         IN IF result = "INSTALLED" THEN "True"
            ELSE IF result \in {"SKIP", "ENABLED"} THEN "None"
            ELSE "False"
    ELSE "False"

\* Node._check_registry_install (lines 103-139) on what cm-cli printed: the
\* first ERROR line decides (following_stdout[0] raises IndexError when only
\* blank text follows an "An error occurred while installing" line), then
\* the first result line
CheckRegistryInstall(output) ==
    LET IsResult(l) == ResultMarker(l) # "none" IN
    IF \E i \in 1..Len(output) : IsErrorLine(output[i])
    THEN LET i == FirstLine(output, IsErrorLine)
         IN IF /\ output[i] = "ERROR: An error occurred while installing"
               /\ \A j \in (i+1)..Len(output) : output[j] = ""
            THEN "IndexError"
            ELSE "False"
    ELSE IF \E i \in 1..Len(output) : IsResult(output[i])
    THEN LET result == ResultMarker(output[FirstLine(output, IsResult)])
         IN IF result = "INSTALLED" THEN "True"
            ELSE IF result \in {"SKIP", "ENABLED"} THEN "None"
            ELSE "False"
    ELSE "False"

NoOutput == [ran |-> FALSE, raised |-> FALSE, lines |-> <<>>]

InitNode ==
    /\ MainIdle
    /\ dl = DlIdle
    /\ cm = CmIdle
    /\ ut = UtIdle
    /\ host = HostIdle
    /\ \E node \in UnitNodes, script \in BOOLEAN, kind \in PathKinds :
         nd = [pc |-> "ready", node |-> node, script |-> script, kind |-> kind,
               kind0 |-> kind, calls |-> 0, setup_exists |-> FALSE,
               cmds |-> <<>>, results |-> <<>>, before |-> kind, mark |-> 0,
               output |-> NoOutput, note |-> "none"]

\* a call begins: what is at the path and how many commands ran so far
NodeEnter(n, setup_exists) ==
    [n EXCEPT !.setup_exists = setup_exists, !.before = n.kind,
              !.mark = Len(n.cmds), !.output = NoOutput, !.note = "none"]

\* a call returns: its result joins the history
NodeReturn(n, op, result) ==
    [n EXCEPT !.pc = "ready", !.calls = @ + 1,
              !.results = Append(@, [op |-> op, setup_exists |-> n.setup_exists,
                                     result |-> result, before |-> n.before,
                                     after |-> n.kind,
                                     cmds |-> SubSeq(n.cmds, n.mark + 1, Len(n.cmds)),
                                     note |-> n.note])]

\* Node.is_exists (lines 63-78) called on its own
NodeProbeCall ==
    /\ nd.pc = "ready"
    /\ nd.calls < MaxCalls
    /\ LET e == NodeIsExists(nd.node, nd.kind)
           n == NodeEnter(nd, FALSE)
       IN nd' = NodeReturn([n EXCEPT !.kind = e.kind], "is_exists",
                           IF e.exists THEN "True" ELSE "False")
    /\ UNCHANGED <<main, dl, host, cm, ut>>

\* Node.install lines 141-155: the exclusion check, is_exists, and setup()
\* for a node that exists
NodeInstallCall ==
    /\ nd.pc = "ready"
    /\ nd.calls < MaxCalls
    /\ \E setup_exists \in BOOLEAN :
         LET n == NodeEnter(nd, setup_exists)
             e == NodeIsExists(nd.node, nd.kind)
         IN IF is_excluded(nd.node)
            THEN nd' = NodeReturn(n, "install", "None")
            ELSE IF e.exists
            THEN IF setup_exists
                 THEN \E ok \in BOOLEAN :
                        nd' = NodeReturn([n EXCEPT !.cmds = Append(@, "post-install"),
                                                  !.note = IF ok THEN "setup ok"
                                                           ELSE "setup failed"],
                                         "install", IF ok THEN "True" ELSE "False")
                 ELSE nd' = NodeReturn(n, "install", "None")
            ELSE nd' = [n EXCEPT !.pc = "install_main", !.kind = e.kind]
    /\ UNCHANGED <<main, dl, host, cm, ut>>

\* Node.install lines 156-182. Registry: cm-cli install (check=True raises
\* on a non-zero exit) and the classification of its output, an exception
\* of the classification being caught like any other. Git: git clone, which
\* on failure leaves either nothing or, when only the checkout failed, the
\* cloned repository; then setup(), and rmtree (which can raise) when setup
\* fails
NodeInstallMain ==
    /\ nd.pc = "install_main"
    /\ IF nd.node.source = "registry"
       THEN \E raised \in BOOLEAN, output \in Outputs :
              LET n == [nd EXCEPT !.cmds = Append(@, "install"),
                                  !.output = [ran |-> TRUE, raised |-> raised,
                                              lines |-> IF raised THEN <<>> ELSE output]]
                  c == IF raised THEN "False" ELSE CheckRegistryInstall(output)
                  r == IF c = "IndexError" THEN "False" ELSE c
              IN IF r = "True"
                 THEN nd' = [n EXCEPT !.pc = "install_post", !.kind = "dir"]
                 ELSE nd' = NodeReturn(n, "install", r)
       ELSE \E clone \in IF nd.kind = "absent" THEN {"ok", "failed", "checkout failed"}
                           ELSE {"failed"},
               ok \in BOOLEAN, rmtree_ok \in BOOLEAN :
              IF clone # "ok"
              THEN nd' = NodeReturn([nd EXCEPT !.cmds = Append(@, "git clone"),
                                               !.note = clone,
                                               !.kind = IF clone = "failed" THEN @
                                                        ELSE "dir"],
                                    "install", "False")
              ELSE LET n == [nd EXCEPT !.cmds = @ \o <<"git clone", "post-install">>]
                   IN IF ok
                      THEN nd' = [n EXCEPT !.pc = "install_post", !.kind = "dir"]
                      ELSE nd' = NodeReturn([n EXCEPT !.note = IF rmtree_ok THEN "setup failed"
                                                                ELSE "rmtree failed",
                                                      !.kind = IF rmtree_ok THEN "absent"
                                                               ELSE "dir"],
                                            "install", "False")
    /\ UNCHANGED <<main, dl, host, cm, ut>>

\* what a post-install script can be: not a file, of a type no interpreter
\* is chosen for, one whose interpreter cannot be started, one that exits
\* non-zero, one that exits 0
ScriptKinds == {"missing", "unsupported", "raised", "nonzero", "ok"}

\* utils.py exec_script (lines 136-167) without check: whether a command is
\* run and the return code; every exception is caught
exec_script(script) ==
    IF script \in {"missing", "unsupported"} THEN [ran |-> FALSE, returncode |-> 1]
    ELSE IF script = "raised" THEN [ran |-> TRUE, returncode |-> 1]
    ELSE IF script = "nonzero" THEN [ran |-> TRUE, returncode |-> 2]
    ELSE [ran |-> TRUE, returncode |-> 0]

PostInstall_Revert(n, script) ==
    IF ~n.script THEN NodeReturn(n, "install", "True")
    ELSE LET res == exec_script(script)
             m == [n EXCEPT !.cmds = IF res.ran THEN Append(@, "script") ELSE @,
                            !.note = script]
         IN IF res.returncode = 0 THEN NodeReturn(m, "install", "True")
            ELSE NodeReturn([m EXCEPT !.kind = "absent"], "install", "False")

\* Node.install lines 183-187: the post-install script when one is
\* configured, its return code ignored, then True
PostInstall(n, script) ==
    IF ~n.script THEN NodeReturn(n, "install", "True")
    ELSE LET res == exec_script(script)
         IN NodeReturn([n EXCEPT !.cmds = IF res.ran THEN Append(@, "script") ELSE @,
                                 !.note = script],
                       "install", "True")

\* Node.install lines 183-187
NodeInstallPost ==
    /\ nd.pc = "install_post"
    /\ \E script \in IF nd.script THEN ScriptKinds ELSE {"ok"} :
         nd' = PostInstall(nd, script)
    /\ UNCHANGED <<main, dl, host, cm, ut>>

\* Node.remove (lines 189-211): for a registry node cm-cli uninstall with
\* check=True inside the try, so its failure returns False before the
\* directory is looked at; then rmtree of a path that still exists
NodeRemoveCall ==
    /\ nd.pc = "ready"
    /\ nd.calls < MaxCalls
    /\ LET e == NodeIsExists(nd.node, nd.kind)
           n == NodeEnter(nd, FALSE)
       IN IF is_excluded(nd.node)
          THEN nd' = NodeReturn(n, "remove", "None")
          ELSE IF ~e.exists
          THEN nd' = NodeReturn([n EXCEPT !.kind = e.kind], "remove", "None")
          ELSE \E uninstall \in {"raised", "removed", "kept"}, rmtree_ok \in BOOLEAN :
                 IF nd.node.source = "registry" /\ uninstall = "raised"
                 THEN nd' = NodeReturn([n EXCEPT !.cmds = Append(@, "uninstall"),
                                                 !.note = "uninstall failed"],
                                       "remove", "False")
                 ELSE LET m == IF nd.node.source = "registry"
                               THEN [n EXCEPT !.cmds = Append(@, "uninstall"),
                                              !.kind = IF uninstall = "removed"
                                                       THEN "absent" ELSE @]
                               ELSE n
                      IN IF m.kind = "absent"
                         THEN nd' = NodeReturn(m, "remove", "True")
                         ELSE IF rmtree_ok
                         THEN nd' = NodeReturn([m EXCEPT !.kind = "absent"], "remove", "True")
                         ELSE nd' = NodeReturn([m EXCEPT !.note = "rmtree failed"],
                                               "remove", "False")
    /\ UNCHANGED <<main, dl, host, cm, ut>>

NextNode ==
    \/ NodeProbeCall
    \/ NodeInstallCall
    \/ NodeInstallMain
    \/ NodeInstallPost
    \/ NodeRemoveCall

SpecNode == InitNode /\ [][NextNode]_vars

\* ====================================================== Downloader.download
\* one call of Model.download, and of Downloader.download under it
\* Downloader.download (line 69): max_retries = 3
max_retries == 3

\* utils.py is_huggingface_url / is_civitai_url on the host of a URL
is_huggingface_url(url) ==
    url.host \in {"hf.co", "huggingface.co", "huggingface.com", "hf-mirror.com"}
is_civitai_url(url) == url.host \in {"civitai.com", "civitai.work"}

\* utils.py url_add_query_param(url, "token", value)
url_add_query_param(url, value) == [url EXCEPT !.token = value]

\* messages of the exceptions an attempt can end with: the daemon's
\* error_message of a rejected or otherwise failed transfer, the message
\* raised for a removed transfer, a failed call to the daemon
AuthErrorMessage == "Authorization failed."
ErrorMessages == {AuthErrorMessage, "Resource not found", "Timeout."}
RemovedMessage == "Download was removed"
RpcMessage == "Connection refused"

\* line 96 (variant: no message counts as an authorization failure)
IsAuthFailure_Never(e_msg) == FALSE

\* line 96: "authorization failed" in e_msg.lower()
IsAuthFailure(e_msg) == e_msg = AuthErrorMessage

\* lines 111-112 (variant)
MaxRetriesReachedResult_True == "True"

\* lines 111-112: what the call returns when the loop is over
MaxRetriesReachedResult == "False"

DlUrls == {[host |-> h, token |-> "none"] : h \in {"huggingface.co", "civitai.com", "example.com"}}
Tokens == {"none", "t"}

InitDownload ==
    /\ MainIdle
    /\ nd = NdIdle
    /\ host = HostIdle
    /\ cm = CmIdle
    /\ ut = UtIdle
    /\ \E url \in DlUrls, hf \in Tokens, civitai \in Tokens, exists \in BOOLEAN :
         dl = [pc |-> "call", url |-> url, config_url |-> url, HF_API_TOKEN |-> hf,
               CIVITAI_API_TOKEN |-> civitai, exists |-> exists,
               header |-> "none", attempt |-> 0, adds |-> 0, unfinished |-> 0,
               status |-> "none",
               statuses |-> <<>>, e_msgs |-> <<>>, result |-> "pending"]

\* Model.download (models.py lines 59-73)
DlCall ==
    /\ dl.pc = "call"
    /\ IF dl.exists
       THEN dl' = [dl EXCEPT !.pc = "returned", !.result = "None"]
       ELSE IF is_huggingface_url(dl.url) /\ dl.HF_API_TOKEN # "none"
       THEN dl' = [dl EXCEPT !.pc = "attempt", !.header = "Bearer"]
       ELSE IF is_civitai_url(dl.url) /\ dl.CIVITAI_API_TOKEN # "none"
       THEN dl' = [dl EXCEPT !.pc = "attempt",
                             !.url = url_add_query_param(dl.url, dl.CIVITAI_API_TOKEN)]
       ELSE dl' = [dl EXCEPT !.pc = "attempt"]
    /\ UNCHANGED <<main, nd, host, cm, ut>>

\* lines 93-110: the except block for an attempt that ended with e_msg,
\* and the return after the loop (lines 111-112)
DlExcept(d, e_msg) ==
    LET e == [d EXCEPT !.e_msgs = Append(@, e_msg)] IN
    IF IsAuthFailure(e_msg)
    THEN [e EXCEPT !.pc = "returned", !.result = "False"]
    ELSE IF d.attempt = max_retries - 1 \/ d.attempt + 1 >= max_retries
    THEN [e EXCEPT !.pc = "returned", !.result = MaxRetriesReachedResult]
    ELSE [e EXCEPT !.pc = "attempt", !.attempt = d.attempt + 1]

\* lines 76-78: one pass of `for attempt in range(max_retries)` up to
\* add_uris, which adds a transfer or raises; a transfer already complete
\* skips the polling loop (lines 91-92); unfinished counts the transfers of
\* this call that the daemon holds and that have not ended
DlAdd ==
    /\ dl.pc = "attempt"
    /\ \/ dl' = DlExcept(dl, RpcMessage)
       \/ \E st \in {"active", "complete"} :
            LET d == [dl EXCEPT !.adds = @ + 1, !.status = st,
                                !.unfinished = IF st = "active" THEN @ + 1 ELSE @] IN
            dl' = IF st = "complete"
                  THEN [d EXCEPT !.pc = "returned", !.result = "True",
                                 !.statuses = Append(@, st)]
                  ELSE [d EXCEPT !.pc = "polling"]
    /\ UNCHANGED <<main, nd, host, cm, ut>>

\* lines 80-92: one pass of the polling loop: update(), then the status
\* decides (error: the transfer is removed and its error_message raised;
\* removed: raised; complete: the loop ends and the call returns True;
\* otherwise the loop sleeps and polls again); when update() itself raises,
\* the transfer stays in the daemon as it was
DlPoll ==
    /\ dl.pc = "polling"
    /\ \/ dl' = DlExcept([dl EXCEPT !.statuses = Append(@, "raise")], RpcMessage)
       \/ \E st \in {"active", "complete", "error", "removed"} :
            LET d == [dl EXCEPT !.status = st,
                                !.unfinished = IF st = "active" THEN @ ELSE @ - 1] IN
            IF st = "error"
            THEN \E msg \in ErrorMessages :
                   dl' = DlExcept([d EXCEPT !.statuses = Append(@, st)], msg)
            ELSE IF st = "removed"
            THEN dl' = DlExcept([d EXCEPT !.statuses = Append(@, st)], RemovedMessage)
            ELSE IF st = "complete"
            THEN dl' = [d EXCEPT !.pc = "returned", !.result = "True",
                                 !.statuses = Append(@, st)]
            ELSE dl' = d
    /\ UNCHANGED <<main, nd, host, cm, ut>>

NextDownload ==
    \/ DlCall
    \/ DlAdd
    \/ DlPoll

SpecDownload == InitDownload /\ [][NextDownload]_vars

\* the call is scheduled, and every added transfer eventually leaves the
\* active status
FairSpecDownload ==
    /\ SpecDownload
    /\ WF_vars(DlCall)
    /\ WF_vars(DlAdd)
    /\ WF_vars(DlPoll)

\* ========================================================= launch and signals
\* startup step 8 (boot.py lines 307-325) statement by statement, with the
\* handler that __init__ installed for SIGTERM and SIGINT (lines 159-170)
\* running between any two of them
\* exit statuses of the host application; one ended by SIGTERM reports -15
ExitCodes == 0..MaxExitCode
NoStatus == 0 - 1

\* an exit that always reports success
ExitStatus_Zero(exit_code) == 0

\* sys.exit(exit_code) (line 324): the status the parent of this program
\* sees is the low byte of the argument
ExitStatus(exit_code) == exit_code % 256
SIGTERM_CODE == 0 - 15

InitLaunch ==
    /\ MainIdle
    /\ nd = NdIdle
    /\ dl = DlIdle
    /\ cm = CmIdle
    /\ ut = UtIdle
    /\ host = [pc |-> "launch", comfyui_process |-> "None", running |-> FALSE,
               term_sent |-> FALSE, child_code |-> 0, exit_code |-> 0,
               arrivals |-> <<>>, raised |-> FALSE, status |-> NoStatus]

\* line 314, the call subprocess.Popen(cmd): the process is started, or the
\* call raises (lines 317-321: exit_code = 1)
HostPopen ==
    /\ host.pc = "launch"
    /\ \/ host' = [host EXCEPT !.pc = "spawned", !.running = TRUE]
       \/ host' = [host EXCEPT !.pc = "post_exit", !.exit_code = 1, !.raised = TRUE]
    /\ UNCHANGED <<main, nd, dl, cm, ut>>

\* line 314, the assignment self.comfyui_process = <the Popen object>
HostAssign ==
    /\ host.pc = "spawned"
    /\ host' = [host EXCEPT !.pc = "waiting", !.comfyui_process = "Popen"]
    /\ UNCHANGED <<main, nd, dl, cm, ut>>

\* the host application ends: by itself with one of its exit statuses, or
\* on the SIGTERM that terminate() sent
HostChildExit ==
    /\ host.running
    /\ \E code \in ExitCodes \cup (IF host.term_sent THEN {SIGTERM_CODE} ELSE {}) :
         host' = [host EXCEPT !.running = FALSE, !.child_code = code]
    /\ UNCHANGED <<main, nd, dl, cm, ut>>

\* line 315, exit_code = self.comfyui_process.wait(): returns the status of
\* the ended process, or raises (lines 317-321: exit_code = 1)
HostWait ==
    /\ host.pc = "waiting"
    /\ \/ /\ ~host.running
          /\ host' = [host EXCEPT !.pc = "post_exit", !.exit_code = host.child_code]
       \/ host' = [host EXCEPT !.pc = "post_exit", !.exit_code = 1, !.raised = TRUE]
    /\ UNCHANGED <<main, nd, dl, cm, ut>>

\* lines 322-324: _post_exit_hook() and sys.exit(exit_code)
HostExit ==
    /\ host.pc = "post_exit"
    /\ host' = [host EXCEPT !.pc = "exited", !.status = ExitStatus(host.exit_code)]
    /\ UNCHANGED <<main, nd, dl, cm, ut>>

\* a handler that ends the program, as the default disposition would
Signal_Abort ==
    /\ host.pc # "exited"
    /\ Len(host.arrivals) < MaxSignals
    /\ host' = [host EXCEPT !.arrivals = Append(@, [pc |-> host.pc, at |-> pc,
                                                    running |-> host.running,
                                                    terminate |-> FALSE])]
    /\ pc' = "aborted"
    /\ abort' = "signal"
    /\ UNCHANGED <<cfg, stateFile, nodeDirs, modelFiles, run, prev_state,
                   current_state, nm, mm, launched, last, markers, env, nd, dl, cm, ut>>

\* shutdown_handler (lines 160-167) run for a SIGTERM or SIGINT: terminate()
\* when self.comfyui_process is set and poll() is None, a log line otherwise;
\* arrivals records, per signal, the step of startup it arrived at, whether
\* the host application was running and whether terminate() was called
Signal ==
    /\ host.pc # "exited"
    /\ Len(host.arrivals) < MaxSignals
    /\ LET forward == host.comfyui_process # "None" /\ host.running IN
       host' = [host EXCEPT
                  !.term_sent = @ \/ forward,
                  !.arrivals = Append(@, [pc |-> host.pc, at |-> pc,
                                          running |-> host.running,
                                          terminate |-> forward])]
    /\ UNCHANGED <<main, nd, dl, cm, ut>>

NextLaunch ==
    \/ HostPopen
    \/ HostAssign
    \/ HostChildExit
    \/ HostWait
    \/ HostExit
    \/ Signal

SpecLaunch == InitLaunch /\ [][NextLaunch]_vars

\* ------------------------------------------------- signals during startup
\* the handlers are installed by __init__ (line 137), so every step of
\* startup() runs with them in place; self.comfyui_process is still None
HostStartup ==
    [pc |-> "startup", comfyui_process |-> "None", running |-> FALSE,
     term_sent |-> FALSE, child_code |-> 0, exit_code |-> 0, arrivals |-> <<>>,
     raised |-> FALSE, status |-> NoStatus]

\* configs of at most one node and two models, against no state document
\* or one that records another node and one of the models elsewhere
CancelCfgs ==
    [custom_nodes : {<<>>, <<Node("x", "registry", "v1")>>},
     models : {<<>>, <<Model("u1", "p1")>>, <<Model("u1", "p1"), Model("u2", "p2")>>}]

CancelFiles ==
    {[kind |-> "absent", doc |-> EmptyDoc],
     [kind |-> "file",
      doc |-> Doc(Categories, <<Node("old", "registry", "v2")>>,
                  <<Model("u1", "p2"), Model("u3", "p3")>>)]}

InitCancel ==
    /\ InitMain(CancelCfgs, CancelFiles, {"x"}, {{}})
    /\ nd = NdIdle
    /\ dl = DlIdle
    /\ cm = CmIdle
    /\ ut = UtIdle
    /\ host = HostStartup

\* a SIGTERM or SIGINT delivered while startup() has not yet reached the
\* launch of the host application
StartupSignal ==
    /\ pc \notin {"exited", "aborted"}
    /\ Signal

NextCancel ==
    \/ Load
    \/ PreInitHook
    \/ NodesBegin
    \/ NodeInstall
    \/ NodeRemove
    \/ NodesDone
    \/ ModelsBegin
    \/ ModelMove
    \/ ModelRemove
    \/ ModelDownload
    \/ ModelsDone
    \/ PostInitHook
    \/ Summary
    \/ Launch
    \/ StartupSignal

SpecCancel == InitCancel /\ [][NextCancel]_vars

\* ------------------------------------------- construction and prior state
\* what can be at the application root
AppPathKinds == {"dir", "file", "missing"}

\* what can be at the state path: nothing, a directory, a file that does
\* not parse, a file whose JSON value is not an object, an object whose
\* value for one category is a number, and a well-formed document
StartupFiles ==
    {[kind |-> "absent", doc |-> EmptyDoc],
     [kind |-> "dir", doc |-> EmptyDoc],
     [kind |-> "file", doc |-> [EmptyDoc EXCEPT !.type = "corrupt"]],
     [kind |-> "file", doc |-> [EmptyDoc EXCEPT !.type = "list"]],
     [kind |-> "file", doc |-> [EmptyDoc EXCEPT !.keys = {"custom_nodes"},
                                                !.nonlist = {"custom_nodes"}]],
     [kind |-> "file", doc |-> [EmptyDoc EXCEPT !.keys = {"models"},
                                                !.nonlist = {"models"}]]}
    \cup CancelFiles

\* main() before ComfyUILauncher(...) (lines 328-343): env.prior keeps what
\* was at the state path
InitStartup ==
    /\ InitInputs(CancelCfgs, StartupFiles, {"x"}, {{}})
    /\ pc = "init"
    /\ \E k \in AppPathKinds, u \in BOOLEAN :
         env = [app_path |-> k, pre_init_scripts |-> "dir",
                post_init_scripts |-> "dir", hooks |-> <<>>,
                update_nodes |-> u, prior |-> stateFile]
    /\ nd = NdIdle
    /\ dl = DlIdle
    /\ cm = CmIdle
    /\ ut = UtIdle
    /\ host = HostIdle

\* ComfyUILauncher.__init__ (lines 104-137) with _check_env (lines 139-143):
\* FileNotFoundError unless the application root is a directory
Construct ==
    /\ pc = "init"
    /\ IF env.app_path = "dir"
       THEN /\ pc' = "load"
            /\ abort' = abort
       ELSE /\ pc' = "aborted"
            /\ abort' = "app_path"
    /\ UNCHANGED <<cfg, stateFile, nodeDirs, modelFiles, run, prev_state,
                   current_state, nm, mm, launched, last, markers, env, aux>>

NextStartup ==
    \/ Construct
    \/ Load
    \/ PreInitHook
    \/ NodesBegin
    \/ NodeInstall
    \/ NodeRemove
    \/ NodesDone
    \/ ModelsBegin
    \/ ModelMove
    \/ ModelRemove
    \/ ModelDownload
    \/ ModelsDone
    \/ PostInitHook
    \/ Summary
    \/ Launch

SpecStartup == InitStartup /\ [][NextStartup]_vars

\* ------------------------------------------------------------ config files
\* file names as the code points of their characters, the order in which
\* Python compares strings: "-" 45, "." 46, "0".."9" 48..57, "a" 97, ...
DOT_TOML == <<46, 116, 111, 109, 108>>
FileNames ==
    {<<57, 45, 97>> \o DOT_TOML,          \* 9-a.toml
     <<49, 48, 45, 97>> \o DOT_TOML,      \* 10-a.toml
     <<48, 57, 45, 122>> \o DOT_TOML,     \* 09-z.toml
     <<49, 120>> \o DOT_TOML,             \* 1x.toml
     <<97>> \o DOT_TOML}                  \* a.toml

\* the directories under the config root that hold fragments: the root
\* itself and a subdirectory
FileDirs == {"", "s1"}

\* what a fragment holds: text that tomllib rejects; a custom_nodes list and
\* a models list; a custom_nodes list followed by a models value that is a
\* number; a custom_nodes list of two entries
Bodies == {"syntax", "lists", "partial", "nodes"}

ConfigFiles == [dir : FileDirs, name : FileNames, body : Bodies]

\* the entries of a fragment carry the place they come from
Entry(file, j) == [dir |-> file.dir, name |-> file.name, j |-> j]

\* tomllib.loads(file.read_text()) (line 36): the key/value pairs in file
\* order, or "raise"
TomlLoads(file) ==
    IF file.body = "syntax" THEN "raise"
    ELSE IF file.body = "lists"
    THEN <<[key |-> "custom_nodes", list |-> TRUE, value |-> <<Entry(file, 1)>>],
           [key |-> "models", list |-> TRUE, value |-> <<Entry(file, 2)>>]>>
    ELSE IF file.body = "partial"
    THEN <<[key |-> "custom_nodes", list |-> TRUE, value |-> <<Entry(file, 1)>>],
           [key |-> "models", list |-> FALSE, value |-> <<>>]>>
    ELSE <<[key |-> "custom_nodes", list |-> TRUE,
            value |-> <<Entry(file, 1), Entry(file, 2)>>]>>

IsDigit(c) == c \in 48..57

RECURSIVE LeadingDigits(_)
LeadingDigits(name) ==
    IF name # <<>> /\ IsDigit(Head(name))
    THEN <<Head(name)>> \o LeadingDigits(Tail(name))
    ELSE <<>>

RECURSIVE IntOf(_, _)
\* int(match.group(1))
IntOf(digits, acc) ==
    IF digits = <<>> THEN acc
    ELSE IntOf(Tail(digits), 10 * acc + (Head(digits) - 48))

\* ConfigManager._sort_by_numeric_prefix (lines 22-30): (int(prefix),
\* filename) when the name matches ^(\d+)-, (inf, filename) otherwise; the
\* key is taken from file_path.name, the directory is not in it
SortByNumericPrefix(file) ==
    LET digits == LeadingDigits(file.name)
        n == Len(digits)
    IN IF n > 0 /\ Len(file.name) > n /\ file.name[n + 1] = 45
       THEN [inf |-> FALSE, n |-> IntOf(digits, 0), filename |-> file.name]
       ELSE [inf |-> TRUE, n |-> 0, filename |-> file.name]

RECURSIVE StrLess(_, _)
\* Python's < on strings
StrLess(a, b) ==
    IF b = <<>> THEN FALSE
    ELSE IF a = <<>> THEN TRUE
    ELSE IF Head(a) # Head(b) THEN Head(a) < Head(b)
    ELSE StrLess(Tail(a), Tail(b))

\* Python's < on the key tuples
KeyLess(a, b) ==
    IF a.inf # b.inf THEN b.inf
    ELSE IF ~a.inf /\ a.n # b.n THEN a.n < b.n
    ELSE StrLess(a.filename, b.filename)

RECURSIVE InsertSorted(_, _)
\* x goes behind every element whose key is not greater than its own
InsertSorted(x, sorted) ==
    IF sorted = <<>> THEN <<x>>
    ELSE IF KeyLess(SortByNumericPrefix(x), SortByNumericPrefix(Head(sorted)))
    THEN <<x>> \o sorted
    ELSE <<Head(sorted)>> \o InsertSorted(x, Tail(sorted))

RECURSIVE SortFiles(_, _)
\* config_files.sort(key=self._sort_by_numeric_prefix) (line 70): list.sort
\* is stable, files with equal keys stay in the order they were found in
SortFiles(files, sorted) ==
    IF files = <<>> THEN sorted
    ELSE SortFiles(Tail(files), InsertSorted(Head(files), sorted))

NoConfig == [custom_nodes |-> <<>>, models |-> <<>>]

\* full_config[key].extend(value)
Extend(full_config, key, value) ==
    IF key = "custom_nodes" THEN [full_config EXCEPT !.custom_nodes = @ \o value]
    ELSE [full_config EXCEPT !.models = @ \o value]

RECURSIVE MergePairs(_, _)
\* parse_config_files lines 37-41: the loop over config.items(); extend
\* raises for a value that is not iterable, the except ends the loop and
\* what was extended before stays
MergePairs(full_config, pairs) ==
    IF pairs = <<>> THEN full_config
    ELSE IF ~Head(pairs).list THEN full_config
    ELSE MergePairs(Extend(full_config, Head(pairs).key, Head(pairs).value), Tail(pairs))

\* parse_config_files lines 34-41 for one file
ParseConfigFile(full_config, file) ==
    IF TomlLoads(file) = "raise" THEN full_config
    ELSE MergePairs(full_config, TomlLoads(file))

\* the orders in which a set of files can be listed
Orders(S) == {o \in [1..Cardinality(S) -> S] : \A f \in S : \E i \in DOMAIN o : o[i] = f}

\* ConfigManager(config_dir) is called (boot.py lines 196-203) on a config
\* root that is a directory with up to MaxFiles fragments in it, a plain
\* file or missing; no include or exclude pattern is set
InitConfig ==
    /\ MainIdle
    /\ nd = NdIdle
    /\ dl = DlIdle
    /\ host = HostIdle
    /\ ut = UtIdle
    /\ \E root \in {"dir", "file", "absent"},
          files \in {Range(l) : l \in SeqsUpTo(ConfigFiles, MaxFiles)} :
         /\ \A f, g \in files : f.dir = g.dir /\ f.name = g.name => f = g
         /\ root # "dir" => files = {}
         /\ cm = [pc |-> "load_config", root |-> root, files |-> files,
                  config_files |-> <<>>, found |-> <<>>, i |-> 1,
                  full_config |-> NoConfig, config |-> NoConfig]

\* load_config lines 47-57: list(dir.rglob("*.toml")) in the order the
\* file system lists them; a plain file at the root is removed
CmDiscover ==
    /\ cm.pc = "load_config"
    /\ IF cm.root = "dir"
       THEN \E o \in Orders(cm.files) :
              cm' = [cm EXCEPT !.pc = "sort", !.found = o, !.config_files = o]
       ELSE cm' = [cm EXCEPT !.pc = "done", !.root = "absent"]
    /\ UNCHANGED <<main, nd, dl, host, ut>>

\* load_config line 70
CmSort ==
    /\ cm.pc = "sort"
    /\ cm' = [cm EXCEPT !.pc = "parse", !.config_files = SortFiles(@, <<>>)]
    /\ UNCHANGED <<main, nd, dl, host, ut>>

\* parse_config_files lines 34-41: one iteration of the loop over the files
CmParse ==
    /\ cm.pc = "parse"
    /\ cm.i <= Len(cm.config_files)
    /\ cm' = [cm EXCEPT !.i = @ + 1,
                        !.full_config = ParseConfigFile(@, cm.config_files[cm.i])]
    /\ UNCHANGED <<main, nd, dl, host, ut>>

\* parse_config_files line 42 and load_config lines 75-80
CmReturn ==
    /\ cm.pc = "parse"
    /\ cm.i > Len(cm.config_files)
    /\ cm' = [cm EXCEPT !.pc = "done", !.config = cm.full_config]
    /\ UNCHANGED <<main, nd, dl, host, ut>>

NextConfig ==
    \/ CmDiscover
    \/ CmSort
    \/ CmParse
    \/ CmReturn

SpecConfig == InitConfig /\ [][NextConfig]_vars

\* ================================================================ claims
NoDuplicates(s) == \A i, j \in 1..Len(s) : s[i] = s[j] => i = j

\* the node phase of this run has computed its queues (or found none)
NodesQueued == nm.ran
\* the node phase of this run is over
NodesOver == nm.ran /\ pc \notin {"nodes", "node_install", "node_remove", "nodes_done"}
\* install failures of a finished node phase
InstallFailed(n) == Names(n.failed) \cap Names(n.install_queue)

\* C1: partial-failure isolation. When some installs of a batch fail and
\* the others succeed, the state document after the node phase records the
\* installed nodes and not the failed ones, and the next run queues exactly
\* the failed ones for install.
C1_PartialFailureIsolation ==
    /\ (NodesOver /\ InstallFailed(nm) # {} /\ nm.installed # <<>>)
         => /\ stateFile.kind = "file"
            /\ Names(nm.installed) \subseteq Names(Get(stateFile.doc, "custom_nodes"))
            /\ InstallFailed(nm) \cap Names(Get(stateFile.doc, "custom_nodes")) = {}
    /\ (run > 1 /\ NodesQueued /\ InstallFailed(last.nm) # {} /\ last.nm.installed # <<>>)
         => Names(nm.install_queue) = InstallFailed(last.nm)

\* the model phase of this run has computed its queues
ModelsQueued == mm.ran
MoveTargets(m) == {m.move_queue[i].current_model.path : i \in 1..Len(m.move_queue)}
MoveSources(m) == {m.move_queue[i].prev_model.path : i \in 1..Len(m.move_queue)}

\* C2: retry of every failure. Whatever failed in the previous run is
\* queued again in this run (install, remove, download, move, remove of a
\* model), and whatever was queued and did not fail is not queued again.
C2_RetryEveryFailure ==
    /\ (run > 1 /\ NodesQueued) =>
         /\ \A n \in Names(last.nm.install_queue) :
              (n \in Names(last.nm.failed)) <=> (n \in Names(nm.install_queue))
         /\ \A n \in Names(last.nm.remove_queue) :
              (n \in Names(last.nm.failed)) <=> (n \in Names(nm.remove_queue))
    /\ (run > 1 /\ ModelsQueued) =>
         /\ \A p \in ModelPaths(last.mm.download_queue) :
              (p \in ModelPaths(last.mm.failed)) <=> (p \in ModelPaths(mm.download_queue))
         /\ \A p \in ModelPaths(last.mm.remove_queue) :
              (p \in ModelPaths(last.mm.failed)) <=> (p \in ModelPaths(mm.remove_queue))
         /\ \A i \in 1..Len(last.mm.move_queue) :
              (last.mm.move_queue[i].current_model \notin Range(last.mm.moved))
                <=> (last.mm.move_queue[i] \in Range(mm.move_queue))

\* C3: idempotence. After a run that launched the host application with
\* no failed action, the next run with the same config queues nothing.
C3_Idempotence ==
    (run > 1 /\ last.launched /\ last.nm.failed = <<>> /\ last.mm.failed = <<>>)
      => /\ nm.install_queue = <<>> /\ nm.remove_queue = <<>>
         /\ mm.move_queue = <<>> /\ mm.remove_queue = <<>> /\ mm.download_queue = <<>>

\* C4: launch is never blocked. No outcome of the node and model phases
\* ends the run before the host application is launched.
C4_LaunchNeverBlocked == pc # "aborted"

\* C5: snapshot writer. When a run has launched the host application, the
\* state document holds, per category, the deduplicated desired list
\* without that category's failed resources.
C5_SnapshotWriter ==
    pc = "exited" =>
      /\ stateFile.kind = "file"
      /\ Get(stateFile.doc, "custom_nodes")
           = NodesNotIn(NodesLoadConfig(cfg.custom_nodes), nm.failed)
      /\ ModelPaths(Get(stateFile.doc, "models"))
           = ModelPaths(UniqueModels(cfg.models, {})) \ ModelPaths(mm.failed)

C7_FirstRunRepair ==
    NodesQueued =>
      IF nm.prev_state = <<>>
      THEN /\ nm.install_queue = nm.current_config
           /\ nm.current_config = NodesLoadConfig(cfg.custom_nodes)
           /\ nm.remove_queue = <<>>
           /\ \A k \in 1..Len(nm.setup_args) : nm.setup_args[k]
           /\ NodesOver => Len(nm.setup_args) = Len(nm.current_config)
      ELSE \A k \in 1..Len(nm.setup_args) : ~nm.setup_args[k]

\* a first run that has gone through a batch of two or more installs, one
\* of them for a node whose directory was already there
C7_Witness ==
    /\ NodesOver /\ nm.prev_state = <<>>
    /\ Len(nm.setup_args) >= 2
    /\ nm.failed # <<>> /\ nm.installed # <<>>
    /\ Names(nm.failed) \subseteq nodeDirs

\* C8: model identity by URL. For a desired model whose URL is the URL of
\* an achieved model at another path, exactly one Move from the achieved
\* path to the desired path is queued, the desired model is not queued for
\* download and the achieved model is not queued for removal.
C8_ModelIdentityByUrl ==
    ModelsQueued =>
      \A m \in Range(mm.current_config), a \in Range(mm.prev_config) :
        (m.url = a.url /\ m.path # a.path) =>
          /\ Cardinality({i \in 1..Len(mm.move_queue) :
                            /\ mm.move_queue[i].prev_model = a
                            /\ mm.move_queue[i].current_model = m}) = 1
          /\ m \notin Range(mm.download_queue)
          /\ a \notin Range(mm.remove_queue)

\* C9: download queue completeness. Every desired model whose URL is not
\* in the achieved snapshot is in the download queue.
C9_DownloadQueueComplete ==
    ModelsQueued =>
      \A m \in Range(mm.current_config) :
        m.url \notin ModelUrls(mm.prev_config) => m \in Range(mm.download_queue)

\* C10: an unchanged model is untouched. For a desired model found in the
\* achieved snapshot under the same URL and path, no queued Move, Remove or
\* Download names that path as its source or target.
C10_UnchangedUntouched ==
    ModelsQueued =>
      \A m \in Range(mm.current_config), a \in Range(mm.prev_config) :
        (m.url = a.url /\ m.path = a.path) =>
          /\ m.path \notin MoveSources(mm) \cup MoveTargets(mm)
          /\ m.path \notin ModelPaths(mm.remove_queue)
          /\ m.path \notin ModelPaths(mm.download_queue)

\* startup is past its model step (lines 232-252) without the transfer
\* daemon having failed to start
ModelsStepOver ==
    /\ pc \in {"model_move", "model_remove", "model_download", "models_done",
               "post_init", "summary", "launch", "exited", "aborted"}
    /\ abort # "downloader"

\* C11: orphan removal. For every desired model list (the empty one
\* included) and every achieved snapshot, once the model step has computed
\* its queues an achieved model is in the remove queue exactly when its URL
\* is the URL of no desired model.
C11_OrphanRemoval ==
    ModelsStepOver =>
      \A a \in Range(UniqueModels(Get(prev_state, "models"), {})) :
        ModelIn(a, mm.remove_queue) <=> a.url \notin ModelUrls(cfg.models)

\* number of executed actions of a kind in a history
CountKind(log, kind) == Cardinality({i \in 1..Len(log) : log[i].kind = kind})

\* position of a model phase in the order Move, Remove, Download
ModelPhaseRank(kind) ==
    IF kind = "move" THEN 1 ELSE IF kind = "remove" THEN 2 ELSE 3

\* C12: model phase ordering. In one init_models run every queued Move has
\* been executed before the first Remove starts, and every queued Remove
\* before the first Download starts.
C12_ModelPhaseOrder ==
    ModelsQueued =>
      /\ (pc = "model_remove" \/ CountKind(mm.log, "remove") > 0) =>
           CountKind(mm.log, "move") = Len(mm.move_queue)
      /\ (pc = "model_download" \/ CountKind(mm.log, "download") > 0) =>
           /\ CountKind(mm.log, "move") = Len(mm.move_queue)
           /\ CountKind(mm.log, "remove") = Len(mm.remove_queue)
      /\ \A i, j \in 1..Len(mm.log) :
           i < j => ModelPhaseRank(mm.log[i].kind) <= ModelPhaseRank(mm.log[j].kind)

\* a finished run that moved, removed and downloaded
C12_Witness ==
    /\ pc = "models_done"
    /\ CountKind(mm.log, "move") > 0
    /\ CountKind(mm.log, "remove") > 0
    /\ CountKind(mm.log, "download") > 0

ResourcesWith(log, result) ==
    {log[i].resource : i \in {k \in 1..Len(log) : log[k].result = result}}

\* C14: only Failures are failures. At every point of a run the failed list
\* of a category holds exactly the resources of the executed actions
\* (install, remove; move, remove, download) whose outcome was Failure; an
\* action that returned NoOp adds nothing to it.
C14_OnlyFailuresFail ==
    /\ Range(nm.failed) = ResourcesWith(nm.log, "False")
    /\ Range(mm.failed) = ResourcesWith(mm.log, "False")

\* C15: exclusion invariance. For a node whose name is in the exclusion
\* set, whatever its source, version, script, setup_exists argument and
\* whatever is at its path (nothing, a plain file, a valid or an invalid
\* directory), every install() and remove() call returns NoOp, no external
\* command is run and the path is left as it was.
C15_ExclusionInvariance ==
    (nd.node.name \in BOOT_INIT_NODE_EXCLUDE) =>
      /\ nd.pc = "ready"
      /\ \A i \in 1..Len(nd.results) :
           LET r == nd.results[i] IN
           r.op \in {"install", "remove"} =>
             r.result = "None" /\ r.cmds = <<>> /\ r.after = r.before

\* an excluded git node whose path is a plain file went through an install
\* with setup_exists and a remove
C15_Witness ==
    /\ nd.node.name \in BOOT_INIT_NODE_EXCLUDE
    /\ nd.node.source = "git"
    /\ nd.kind0 = "file"
    /\ Len(nd.results) = 2
    /\ nd.results[1].op = "install" /\ nd.results[1].setup_exists
    /\ nd.results[2].op = "remove"

\* C16: interrupted-transfer repair. A desired model whose partial file
\* and marker were on disk at the start of the run (its path was purged
\* when the Model objects were built) has lost its marker and is in the
\* download queue of that run, whether or not the achieved snapshot lists
\* that model at that path.
C16_InterruptedRepair ==
    ModelsQueued =>
      \A m \in Range(mm.current_config) :
        m.path \in mm.purged =>
          /\ m.path \notin markers
          /\ ModelIn(m, mm.download_queue)

\* index of the first entry of inp whose key is k
FirstIdx(inp, Key(_), k) ==
    CHOOSE i \in 1..Len(inp) :
      Key(inp[i]) = k /\ \A j \in 1..(i-1) : Key(inp[j]) # k

\* out keeps, for each key of inp, exactly the first entry with that key,
\* in the order of inp
IsFirstKept(inp, out, Key(_)) ==
    /\ {Key(out[i]) : i \in 1..Len(out)} = {Key(inp[i]) : i \in 1..Len(inp)}
    /\ \A i, j \in 1..Len(out) : Key(out[i]) = Key(out[j]) => i = j
    /\ \A i \in 1..Len(out) : out[i] = inp[FirstIdx(inp, Key, Key(out[i]))]
    /\ \A i, j \in 1..Len(out) :
         i < j => FirstIdx(inp, Key, Key(out[i])) < FirstIdx(inp, Key, Key(out[j]))

\* the entries of inp that are not the first of their key
Dropped(inp, Key(_)) ==
    {i \in 1..Len(inp) : FirstIdx(inp, Key, Key(inp[i])) # i}

\* C17: dedup precedence. Loading a node list (key: name) or a model list
\* (key: path) keeps for each key exactly the first entry with that key,
\* the retained entries in the relative order of the input, and every
\* dropped entry is reported as a duplicate.
C17_DedupPrecedence ==
    /\ NodesQueued =>
         /\ IsFirstKept(cfg.custom_nodes, nm.current_config, LAMBDA x : x.name)
         /\ IsFirstKept(Get(prev_state, "custom_nodes"), nm.prev_state, LAMBDA x : x.name)
         /\ \A i \in Dropped(cfg.custom_nodes, LAMBDA x : x.name) :
              cfg.custom_nodes[i].name \in NodesDuplicatesReported(cfg.custom_nodes)
    /\ ModelsQueued =>
         /\ IsFirstKept(cfg.models, mm.current_config, LAMBDA x : x.path)
         /\ IsFirstKept(Get(prev_state, "models"), mm.prev_config, LAMBDA x : x.path)
         /\ \A i \in Dropped(cfg.models, LAMBDA x : x.path) :
              cfg.models[i] \in Range(ModelsDuplicatesReported(cfg.models, {}))

C19_Safety ==
    /\ dl.adds <= 3
    /\ dl.result = "True" => (dl.adds >= 1 /\ dl.status = "complete")
    /\ (Len(dl.e_msgs) = 3 /\ \A i \in 1..3 : dl.e_msgs[i] # AuthErrorMessage) =>
         (dl.pc = "returned" /\ dl.result = "False")
    /\ (dl.result = "False" /\ \A i \in 1..Len(dl.e_msgs) : dl.e_msgs[i] # AuthErrorMessage) =>
         Len(dl.e_msgs) = 3

\* C19: bounded retry. One call of Downloader.download adds at most 3
\* transfers, returns Success only when a transfer it added reached the
\* complete status, returns Failure after the third failure that is not an
\* authorization rejection, and, every added transfer eventually leaving the
\* active status, the call returns.
C19_BoundedRetry == [](C19_Safety) /\ <>(dl.pc = "returned")

\* three transfers were added and failed, none rejected for authorization,
\* and the call returned Failure
C19_Witness ==
    /\ dl.pc = "returned"
    /\ dl.result = "False"
    /\ dl.adds = 3
    /\ Len(dl.statuses) = 3
    /\ \A i \in 1..3 : dl.e_msgs[i] # AuthErrorMessage

\* C20: signal forwarding. Every termination signal that arrived while the
\* host application process was started and had not exited made the
\* handler call terminate() on it, whatever statement of the launcher's
\* start-and-wait sequence the signal interleaved with.
C20_SignalForwarding ==
    \A i \in 1..Len(host.arrivals) :
      host.arrivals[i].running => host.arrivals[i].terminate


\* what the probe of the spec reports for a path: a directory counts as
\* Installed, except for a git node when it is not a repository
ProbeInstalled(node, kind) ==
    \/ kind = "dir"
    \/ kind = "baddir" /\ node.source = "registry"

\* C27: git install rollback. For a git-sourced node that is Absent, every
\* install() call that returns Failure, whatever the reason, leaves nothing
\* at the node's path.
C27_GitInstallRollback ==
    \A i \in 1..Len(nd.results) :
      LET r == nd.results[i] IN
      (/\ nd.node.source = "git"
       /\ r.op = "install"
       /\ ~ProbeInstalled(nd.node, r.before)
       /\ r.result = "False") => r.after = "absent"

\* C28: registry result classification. For every output captured from the
\* manager's install command, install() returns Failure when the output has
\* an error line, otherwise Success when the result marker is INSTALLED,
\* NoOp when it is SKIP or ENABLED and Failure when there is no recognized
\* marker; this includes an error line with nothing after it.
C28_RegistryClassification ==
    (nd.pc \in {"ready", "install_post"} /\ nd.output.ran /\ ~nd.output.raised) =>
      LET lines == nd.output.lines
          errors == {i \in 1..Len(lines) : IsErrorLine(lines[i])}
          marked == {i \in 1..Len(lines) : ResultMarker(lines[i]) # "none"}
          marker == IF marked = {} THEN "none"
                    ELSE ResultMarker(lines[CHOOSE i \in marked : \A j \in marked : i <= j])
          expected == IF errors # {} THEN "False"
                      ELSE IF marker = "INSTALLED" THEN "True"
                      ELSE IF marker \in {"SKIP", "ENABLED"} THEN "None"
                      ELSE "False"
      IN IF nd.pc = "install_post" THEN expected = "True"
         ELSE nd.results[Len(nd.results)].result = expected

\* the output ended with the error line of a failed install, after an
\* INSTALLED line, and install() returned Failure
C28_Witness ==
    /\ nd.pc = "ready"
    /\ nd.output.ran
    /\ nd.output.lines = <<"1/1 [INSTALLED] msg", "ERROR: An error occurred while installing">>
    /\ nd.results[Len(nd.results)].op = "install"
    /\ nd.results[Len(nd.results)].result = "False"

\* C29: removal of a registry node. For a registry-sourced node that is
\* Installed, remove() deletes the directory whether the manager's uninstall
\* succeeded or failed, and returns Failure only when the deletion of the
\* directory itself failed.
C29_RemoveBestEffort ==
    \A i \in 1..Len(nd.results) :
      LET r == nd.results[i] IN
      (/\ nd.node.source = "registry"
       /\ ~is_excluded(nd.node)
       /\ r.op = "remove"
       /\ ProbeInstalled(nd.node, r.before)) =>
        /\ r.note # "rmtree failed" => r.after = "absent"
        /\ r.result = "False" => r.note = "rmtree failed"

\* C30: install on an Installed node. Without repairExisting the call
\* returns NoOp and runs no command at all; with repairExisting it runs the
\* setup hook and nothing else, returns Success when the hook succeeded and
\* Failure when it failed, and the directory is still there afterwards.
C30_InstallOnInstalled ==
    \A i \in 1..Len(nd.results) :
      LET r == nd.results[i] IN
      (/\ ~is_excluded(nd.node)
       /\ r.op = "install"
       /\ ProbeInstalled(nd.node, r.before)) =>
        /\ r.after = r.before
        /\ IF r.setup_exists
           THEN /\ r.cmds = <<"post-install">>
                /\ r.note \in {"setup ok", "setup failed"}
                /\ r.result = (IF r.note = "setup ok" THEN "True" ELSE "False")
           ELSE /\ r.cmds = <<>>
                /\ r.result = "None"

\* an installed git node was installed twice: with repairExisting and a
\* failing hook, then without
C30_Witness ==
    /\ nd.node.source = "git"
    /\ ~is_excluded(nd.node)
    /\ nd.kind0 = "dir"
    /\ Len(nd.results) = 2
    /\ nd.results[1].op = "install" /\ nd.results[1].setup_exists
    /\ nd.results[1].result = "False"
    /\ nd.results[2].op = "install" /\ ~nd.results[2].setup_exists
    /\ nd.results[2].result = "None"


\* the statement of C22 as written: the program's exit status is the value
\* wait() returned for the host application, or 1 when starting or awaiting
\* it raised
C22_ExitCodeExact ==
    host.pc = "exited" =>
      host.status = (IF host.raised THEN 1 ELSE host.child_code)

\* C22: exit code. The program exits only after the host application has
\* ended or starting/awaiting it raised. It exits with 1 when that raised,
\* with the host application's exit code when the host application exited,
\* and with 256 - 15 when the host application was ended by the forwarded
\* SIGTERM (wait() returns -15, of which the exit keeps the low byte).
C22_ExitCode ==
    host.pc = "exited" =>
      /\ host.raised \/ ~host.running
      /\ host.raised => host.status = 1
      /\ ~host.raised /\ host.child_code \in ExitCodes => host.status = host.child_code
      /\ ~host.raised /\ host.child_code = SIGTERM_CODE => host.status = 256 - 15

\* the host application exited by itself with status 2 and the program
\* exited with 2
C22_Witness ==
    /\ host.pc = "exited"
    /\ ~host.raised
    /\ host.child_code = 2
    /\ host.status = 2


\* C21: reconciliation is not cancellable. A termination signal that
\* arrives before the host application is launched is only recorded: the
\* step of startup, every queue and its position, the lists of results, the
\* disk, the snapshots and the abort status are what they were, so the run
\* goes on from the same point with the same work left.
C21_NotCancellable ==
    [][Len(host'.arrivals) > Len(host.arrivals) => main' = main]_vars

\* two signals arrived, one while a node was being installed and one while
\* a node was being removed; both queued actions were taken and the host
\* application was launched
C21_Witness ==
    /\ launched
    /\ Len(host.arrivals) = 2
    /\ host.arrivals[1].at = "node_install"
    /\ host.arrivals[2].at = "node_remove"
    /\ Len(nm.remove_queue) = 1
    /\ Len(nm.install_queue) = 1
    /\ Len(nm.log) = 2


\* a state path that holds nothing usable: absent, a directory, content
\* that does not parse, or a parsed value of the wrong type
UnusablePrior(file) ==
    \/ file.kind \in {"absent", "dir"}
    \/ file.kind = "file" /\ (file.doc.type # "dict" \/ file.doc.nonlist # {})

\* C23: prior-state tolerance. When the state path is absent, is a
\* directory, holds content that does not parse or holds a parsed value of
\* the wrong type, startup does not abort on the prior state, the node phase
\* queues every desired node for install with repairExisting and removes
\* nothing, and the model phase queues every desired model for download and
\* moves and removes nothing.
C23_PriorStateTolerance ==
    UnusablePrior(env.prior) =>
      /\ abort \notin {"AttributeError", "TypeError"}
      /\ nm.ran /\ nm.result = "tuple" =>
           /\ nm.setup_exists
           /\ nm.install_queue = nm.current_config
           /\ nm.remove_queue = <<>>
      /\ mm.ran =>
           /\ mm.download_queue = mm.current_config
           /\ mm.move_queue = <<>>
           /\ mm.remove_queue = <<>>

\* C24: fatal startup conditions. With an application root that is missing
\* or not a directory the program aborts before any hook, node or model
\* action and before the state file is touched; and startup aborts for no
\* other reason than an invalid application root or an unreadable config
\* root.
C24_FatalConditions ==
    /\ env.app_path # "dir" =>
         /\ pc \in {"init", "aborted"}
         /\ env.hooks = <<>>
         /\ nm.log = <<>> /\ mm.log = <<>>
         /\ stateFile = env.prior
         /\ ~launched
    /\ pc = "aborted" => abort \in {"app_path", "config_root"}


\* a fragment that fails to parse or to merge
FragmentFails(file) == file.body \in {"syntax", "partial"}

RECURSIVE Without(_, _)
\* the files of a list that are not in S, in the order of the list
Without(files, S) ==
    IF files = <<>> THEN <<>>
    ELSE IF Head(files) \in S THEN Without(Tail(files), S)
    ELSE <<Head(files)>> \o Without(Tail(files), S)

\* the list a fragment gives for a key: what its document holds under it
FragmentList(file, key) ==
    IF file.body = "lists"
    THEN (IF key = "custom_nodes" THEN <<Entry(file, 1)>> ELSE <<Entry(file, 2)>>)
    ELSE IF file.body = "nodes" /\ key = "custom_nodes"
    THEN <<Entry(file, 1), Entry(file, 2)>>
    ELSE IF file.body = "partial" /\ key = "custom_nodes"
    THEN <<Entry(file, 1)>>
    ELSE <<>>

RECURSIVE Concatenation(_, _)
\* the lists of the fragments under key, one after the other
Concatenation(files, key) ==
    IF files = <<>> THEN <<>>
    ELSE FragmentList(Head(files), key) \o Concatenation(Tail(files), key)

\* C25: fragment isolation. When loading has returned, the merged config is
\* what the fragments that did not fail give when merged in the same order:
\* a fragment that failed to parse or to merge has contributed no entry.
C25_FragmentIsolation ==
    cm.pc = "done" =>
      LET failing == {f \in cm.files : FragmentFails(f)}
          others == Without(cm.config_files, failing)
      IN /\ cm.config.custom_nodes = Concatenation(others, "custom_nodes")
         /\ cm.config.models = Concatenation(others, "models")

\* the order the spec gives two fragments: by integer prefix, a prefixed
\* file before an unprefixed one, then by file name
SpecBefore(f, g) ==
    LET kf == SortByNumericPrefix(f)
        kg == SortByNumericPrefix(g)
    IN \/ ~kf.inf /\ kg.inf
       \/ ~kf.inf /\ ~kg.inf /\ kf.n < kg.n
       \/ kf.inf = kg.inf /\ kf.n = kg.n /\ StrLess(f.name, g.name)

\* C26: deterministic merge order. The fragments are merged in ascending
\* order of integer prefix, then of file name, unprefixed files last; the
\* order is the same for every order in which the directory lists the
\* files; and when no fragment fails the merged list of a key is the
\* concatenation of the fragments' lists in that order.
C26_MergeOrder ==
    cm.pc = "done" /\ cm.root = "dir" =>
      /\ \A i, j \in 1..Len(cm.config_files) :
           i < j => ~SpecBefore(cm.config_files[j], cm.config_files[i])
      /\ \A o \in Orders(cm.files) : SortFiles(o, <<>>) = cm.config_files
      /\ (\A f \in cm.files : ~FragmentFails(f)) =>
           /\ cm.config.custom_nodes = Concatenation(cm.config_files, "custom_nodes")
           /\ cm.config.models = Concatenation(cm.config_files, "models")


\* C40: node queues are disjoint. No node name is in both the install queue
\* and the remove queue of a run, and no node was both installed and
\* removed by the same run.
C40_QueuesDisjoint ==
    NodesQueued =>
      /\ Names(nm.install_queue) \cap Names(nm.remove_queue) = {}
      /\ Names(nm.installed) \cap Names(nm.removed) = {}

\* a run that installed one node and removed another while a third, listed
\* in the config and in the previous state with different source and
\* version, was in neither queue
C40_Witness ==
    /\ NodesOver
    /\ nm.installed # <<>>
    /\ nm.removed # <<>>
    /\ \E n \in Range(nm.current_config), o \in Range(nm.prev_state) :
         /\ n.name = o.name
         /\ n # o
         /\ n.name \notin Names(nm.install_queue) \cup Names(nm.remove_queue)


\* C33: node probe auto-repair. is_exists() reports Absent for a missing
\* path; it deletes a plain file, and a directory of a git node that is not
\* a repository, and reports Absent; in every other case it reports
\* Installed and changes nothing; after a call that reported Absent nothing
\* is at the path.
C33_ProbeAutoRepair ==
    \A i \in 1..Len(nd.results) :
      LET r == nd.results[i] IN
      r.op = "is_exists" =>
        /\ IF \/ r.before \in {"absent", "file"}
              \/ r.before = "baddir" /\ nd.node.source = "git"
           THEN r.result = "False"
           ELSE r.result = "True" /\ r.after = r.before
        /\ r.result = "False" => r.after = "absent"


\* C31: post-install hook. The post-install script of a node is executed
\* only after a fresh install of either source has succeeded, never in a
\* call that returns NoOp or Failure; and whatever the script is (missing,
\* of an unsupported type, failing to start, exiting non-zero) the install
\* returns Success and the installed directory stays.
C31_PostInstallHook ==
    \A i \in 1..Len(nd.results) :
      LET r == nd.results[i]
          attempted == r.note \in ScriptKinds
          fresh == /\ r.op = "install"
                   /\ r.result = "True"
                   /\ \E j \in 1..Len(r.cmds) : r.cmds[j] \in {"install", "git clone"}
      IN /\ (attempted \/ \E j \in 1..Len(r.cmds) : r.cmds[j] = "script") =>
              fresh /\ nd.script /\ r.after = "dir"
         /\ fresh /\ nd.script => attempted /\ r.after = "dir"

\* a git node was cloned and set up, and its script exited non-zero
C31_Witness ==
    /\ nd.node.source = "git"
    /\ Len(nd.results) >= 1
    /\ nd.results[1].op = "install"
    /\ nd.results[1].note = "nonzero"
    /\ nd.results[1].cmds = <<"git clone", "post-install", "script">>
    /\ nd.results[1].result = "True"
    /\ nd.kind = "dir"

\* a registry node was installed and its script file is missing
C31_WitnessRegistry ==
    /\ nd.node.source = "registry"
    /\ Len(nd.results) >= 1
    /\ nd.results[1].note = "missing"
    /\ nd.results[1].cmds = <<"install">>
    /\ nd.results[1].result = "True"


\* ------------------------------------------------------------- move_file
\* utils.move_file called on its own, on a directory of up to three paths

MaxMoves == 2

MovePaths == {"a", "b", "c"}

\* nothing at a path
NoFile == "none"

\* the paths that exist in a directory fs (path -> the content found there)
Existing(fs) == {p \in MovePaths : fs[p] # NoFile}

\* utils.move_file (lines 89-106): the result and the directory afterwards;
\* renamed tells whether src.rename(dst) succeeds
move_file(fs, src, dst, renamed) ==
    IF MoveGuard(Existing(fs), src, dst) = "None"
    THEN [result |-> "None", fs |-> fs]
    ELSE IF ~renamed
    THEN [result |-> "False", fs |-> fs]
    ELSE [result |-> "True", fs |-> [fs EXCEPT ![dst] = fs[src], ![src] = NoFile]]

\* a directory in which each path is missing or holds its own content
InitMove ==
    /\ MainIdle
    /\ nd = NdIdle
    /\ dl = DlIdle
    /\ host = HostIdle
    /\ cm = CmIdle
    /\ \E present \in SUBSET MovePaths :
         ut = [pc |-> "ready", calls |-> 0, results |-> <<>>,
               fs |-> [p \in MovePaths |-> IF p \in present THEN p ELSE NoFile]]

\* move_file(src, dst)
MoveCall ==
    /\ ut.pc = "ready"
    /\ ut.calls < MaxMoves
    /\ \E src \in MovePaths, dst \in MovePaths, renamed \in BOOLEAN :
         LET m == move_file(ut.fs, src, dst, renamed)
         IN ut' = [ut EXCEPT !.calls = @ + 1, !.fs = m.fs,
                             !.results = Append(@, [src |-> src, dst |-> dst,
                                                    result |-> m.result,
                                                    before |-> ut.fs, after |-> m.fs])]
    /\ UNCHANGED <<main, nd, dl, host, cm>>

NextMove == MoveCall

SpecMove == InitMove /\ [][NextMove]_vars

\* C32: move semantics. move(from, to) returns NoOp and changes no file when
\* the source is missing, the destination exists or source equals
\* destination; otherwise it renames and returns Success, or returns
\* Failure (on a filesystem error) with nothing changed; a destination that
\* exists is never overwritten.
C32_MoveSemantics ==
    \A i \in 1..Len(ut.results) :
      LET r == ut.results[i]
          noop == \/ r.before[r.src] = NoFile
                  \/ r.before[r.dst] # NoFile
                  \/ r.src = r.dst
      IN /\ noop => r.result = "None" /\ r.after = r.before
         /\ ~noop => r.result \in {"True", "False"}
         /\ r.result = "True" =>
              r.after = [r.before EXCEPT ![r.dst] = r.before[r.src], ![r.src] = NoFile]
         /\ r.result = "False" => r.after = r.before
         /\ r.before[r.dst] # NoFile => r.after[r.dst] = r.before[r.dst]

\* a was moved to b, then c was asked to move onto b and was left alone
C32_Witness ==
    /\ Len(ut.results) = 2
    /\ ut.results[1].src = "a" /\ ut.results[1].dst = "b"
    /\ ut.results[1].result = "True"
    /\ ut.results[2].src = "c" /\ ut.results[2].dst = "b"
    /\ ut.results[2].before["c"] = "c"
    /\ ut.results[2].result = "None"
    /\ ut.fs = [a |-> NoFile, b |-> "a", c |-> "c"]


\* --------------------------------------------------------------- Progress
\* utils.Progress around the loop of a batch phase, as in init_nodes (lines
\* 313-340): with Progress(total_steps=len(queue)) as p, and for every item
\* p.advance() followed by the action, which logs

MaxSteps == 2
MaxPhases == 2
MaxLogLines == 3

\* the logger's level methods unpatched
Unpatched == <<>>

\* Progress.__init__ (lines 248-254)
NewProgress(total_steps) == [total_steps |-> total_steps, current_step |-> 0]

\* Progress.__enter__ (lines 256-267): the methods found on the logger are
\* saved and each is replaced by a wrapper around the saved one; a logger
\* method is modelled by the list of wrappers a message goes through
Enter(u, total_steps) ==
    [u EXCEPT !.p = NewProgress(total_steps),
              !.original_methods = u.logger,
              !.logger = Append(u.logger, "p")]

Exit_Keep(u) == u

\* Progress.__exit__ (lines 269-273): the saved methods are put back
Exit(u) == [u EXCEPT !.logger = u.original_methods]

\* Progress.advance (lines 291-293)
Advance(p) ==
    IF p.current_step < p.total_steps THEN [p EXCEPT !.current_step = @ + 1] ELSE p

\* Progress._log_with_progress (lines 286-289) for every wrapper on the
\* logger: the prefixes that a message gets
Prefix(u) == [i \in 1..Len(u.logger) |-> <<u.p.current_step, u.p.total_steps>>]

\* logger.info / warning / error: one line, with where it was emitted
Log(u) ==
    [u EXCEPT !.lines = Append(@, [phase |-> u.phase, inside |-> u.pc # "outside",
                                   action |-> u.i, total |-> u.queue,
                                   after_raise |-> u.raised,
                                   prefix |-> Prefix(u)])]

InitProgress ==
    /\ MainIdle
    /\ nd = NdIdle
    /\ dl = DlIdle
    /\ host = HostIdle
    /\ cm = CmIdle
    /\ ut = [pc |-> "outside", logger |-> Unpatched, original_methods |-> Unpatched,
             p |-> NewProgress(0), phase |-> 0, queue |-> 0, i |-> 0,
             lines |-> <<>>, raised |-> FALSE]

\* init_nodes line 317: with Progress(total_steps=install_count) as p, for a
\* queue that is not empty (line 313)
ProgressEnter ==
    /\ ut.pc = "outside"
    /\ ut.phase < MaxPhases
    /\ \E n \in 1..MaxSteps :
         ut' = [Enter(ut, n) EXCEPT !.pc = "loop", !.phase = @ + 1, !.queue = n,
                                    !.i = 0, !.raised = FALSE]
    /\ UNCHANGED <<main, nd, dl, host, cm>>

\* lines 318-319: the next item of the queue, p.advance()
ProgressAdvance ==
    /\ ut.pc = "loop"
    /\ ut.i < ut.queue
    /\ ut' = [ut EXCEPT !.pc = "action", !.i = @ + 1, !.p = Advance(@)]
    /\ UNCHANGED <<main, nd, dl, host, cm>>

\* a log line: of the action inside the loop, or of the code between phases
ProgressLog ==
    /\ ut.pc \in {"action", "outside"}
    /\ Len(ut.lines) < MaxLogLines
    /\ ut' = Log(ut)
    /\ UNCHANGED <<main, nd, dl, host, cm>>

\* lines 320-326: the action returns
ProgressActionDone ==
    /\ ut.pc = "action"
    /\ ut' = [ut EXCEPT !.pc = "loop"]
    /\ UNCHANGED <<main, nd, dl, host, cm>>

\* the action raises: the with statement calls __exit__ and the exception
\* goes on
ProgressActionRaise ==
    /\ ut.pc = "action"
    /\ ut' = [Exit(ut) EXCEPT !.pc = "outside", !.raised = TRUE]
    /\ UNCHANGED <<main, nd, dl, host, cm>>

\* the queue is done: the with statement calls __exit__
ProgressExit ==
    /\ ut.pc = "loop"
    /\ ut.i = ut.queue
    /\ ut' = [Exit(ut) EXCEPT !.pc = "outside"]
    /\ UNCHANGED <<main, nd, dl, host, cm>>

NextProgress ==
    \/ ProgressEnter
    \/ ProgressAdvance
    \/ ProgressLog
    \/ ProgressActionDone
    \/ ProgressActionRaise
    \/ ProgressExit

SpecProgress == InitProgress /\ [][NextProgress]_vars

\* C34: scoped progress annotation. Inside a batch phase the log lines of
\* the k-th action carry the prefix [k/total] with 1 <= k <= total and the
\* counter never exceeds total; once the phase has ended, normally or by an
\* exception, the logger's methods are restored, no later line carries a
\* prefix, and a following phase starts again at 1.
C34_ScopedProgress ==
    /\ ut.p.current_step <= ut.p.total_steps
    /\ ut.pc = "outside" => ut.logger = Unpatched
    /\ ut.pc = "action" => ut.p.current_step = ut.i
    /\ \A j \in 1..Len(ut.lines) :
         LET l == ut.lines[j] IN
         IF l.inside
         THEN /\ l.prefix = << <<l.action, l.total>> >>
              /\ 1 <= l.action /\ l.action <= l.total
         ELSE l.prefix = <<>>

\* a phase of two items ended by an exception in its second action, a line
\* logged between the phases, and a line of the first action of the next
\* phase
C34_Witness ==
    /\ Len(ut.lines) = 3
    /\ ut.lines[1].phase = 1 /\ ut.lines[1].prefix = << <<2, 2>> >>
    /\ ut.lines[2].phase = 1 /\ ~ut.lines[2].inside /\ ut.lines[2].after_raise
    /\ ut.lines[2].prefix = <<>>
    /\ ut.lines[3].phase = 2 /\ ut.lines[3].prefix = << <<1, 1>> >>
    /\ ut.phase = 2


\* the position of a startup step in the order load, pre-init hook (with
\* update-all), node reconciliation, node snapshot write, model
\* reconciliation, model snapshot write, post-init hook, summary, launch
StepRank(p) ==
    CASE p = "init" -> 0
      [] p = "load" -> 1
      [] p = "pre_init" -> 2
      [] p \in {"nodes", "node_install", "node_remove"} -> 3
      [] p = "nodes_done" -> 4
      [] p \in {"models", "model_move", "model_remove", "model_download"} -> 5
      [] p = "models_done" -> 6
      [] p = "post_init" -> 7
      [] p = "summary" -> 8
      [] p = "launch" -> 9
      [] OTHER -> 10

\* a step never goes back to an earlier one, the update-all does not stop
\* the run, and the host is launched from the launch step only
StepsForward ==
    /\ StepRank(pc') >= StepRank(pc)
    /\ pc = "pre_init" => pc' = "nodes"
    /\ launched' /\ ~launched => pc = "launch"

\* the hooks run so far are a prefix of pre-init, update-all, post-init (each
\* of them optional); update-all ran exactly when the prior state is not
\* empty and updating is on; the post-init hook ran after model reconciliation
HooksInOrder ==
    LET upd == {i \in 1..Len(env.hooks) : env.hooks[i] \in {"update all", "update all failed"}}
    IN /\ \A i, j \in 1..Len(env.hooks) :
            i < j => /\ env.hooks[i] # "post-init"
                     /\ env.hooks[j] # "pre-init"
                     /\ ~(i \in upd /\ j \in upd)
       /\ upd # {} => Truthy(prev_state) /\ env.update_nodes /\ StepRank(pc) >= 3
       /\ StepRank(pc) \in 3..9 /\ Truthy(prev_state) /\ env.update_nodes => upd # {}
       /\ (\E i \in 1..Len(env.hooks) : env.hooks[i] = "post-init") => StepRank(pc) >= 8

\* once the node reconciliation has returned a result, the state document
\* on disk holds the nodes that did not fail before any model action starts
\* (unless a directory that could not be removed sits at the state path)
NodeSnapshotPersisted ==
    StepRank(pc) \in 5..9 /\ nm.result = "tuple" /\ stateFile.kind # "dir" =>
      /\ stateFile.kind = "file"
      /\ "custom_nodes" \in stateFile.doc.keys
      /\ Get(stateFile.doc, "custom_nodes") = NodesNotIn(nm.current_config, nm.failed)

\* C35: run step ordering. In every run the steps occur in the order load,
\* pre-init hook, optional update-all (only with a non-empty prior state
\* and updating enabled), node reconciliation, node snapshot write, model
\* reconciliation, model snapshot write, post-init hook, summary, launch;
\* the node snapshot is persisted before the first model action starts, and
\* a failure of update-all never prevents the later steps.
C35_StepOrdering ==
    /\ [][StepsForward]_vars
    /\ [](HooksInOrder /\ NodeSnapshotPersisted)

\* the ordering alone, without the persistence of the node snapshot
C35_OrderOnly == [][StepsForward]_vars /\ []HooksInOrder


\* C36: category preservation in the persisted snapshot. When one category
\* is not reconciled in a run (no actions computed, disabled, or an empty
\* desired list) while the other category is reconciled and written by the
\* same run, the state document after the run still holds the entries the
\* first category had before the run.
C36_CategoryPreserved ==
    pc \in {"exited", "aborted"} =>
      \A c \in Categories :
        (/\ c \notin current_state.keys
         /\ current_state.keys # {}
         /\ stateFile = [kind |-> "file", doc |-> current_state]
         /\ c \in prev_state.keys)
        => /\ c \in stateFile.doc.keys
           /\ Get(stateFile.doc, c) = Get(prev_state, c)


\* C37: credentials never reach the persisted snapshot. The URL of a model,
\* which is what the snapshot records and what the next run matches on, is
\* after Model.download the URL given in the config, whatever the provider
\* credentials are (none included); so two runs that differ only in the
\* credentials hand the same model to the snapshot.
C37_CredentialsNotPersisted ==
    dl.pc # "idle" => dl.url = dl.config_url


\* C38: snapshot/disk consistency for models. At the end of every run each
\* model recorded in the persisted state document has a file at its
\* recorded path, for every pair of desired and achieved lists, path swaps
\* and path takeovers included.
C38_SnapshotDiskConsistency ==
    pc \in {"exited", "aborted"} /\ stateFile.kind = "file" =>
      ModelPaths(Get(stateFile.doc, "models")) \subseteq modelFiles


\* C39: single outstanding transfer. At every moment the transfer daemon
\* holds at most one unfinished transfer started by this program, and a
\* retry inside Downloader.download is started only after the transfer of
\* the previous attempt has finished or has been removed from the daemon.
C39_SingleOutstandingTransfer ==
    /\ dl.pc # "idle" => dl.unfinished <= 1
    /\ dl.pc = "attempt" => dl.unfinished = 0

====
